---- MODULE Spec2Model ----
(***************************************************************************)
(* State-machine model of the wolia spreadsheet engine (grid-engine):      *)
(* the workbook (Spreadsheet), one sheet's sparse cell storage (Sheet) and *)
(* the cell selection (Selection / CellRange), the A1 and range-string     *)
(* codecs, Formula::parse, the function table and the aggregates of the   *)
(* evaluator, the view (GridView) and the cell editor of the application   *)
(* (GridEditor over GridView).  Each subsystem has its own specification;  *)
(* the variables of the other subsystems stay unchanged.  The editor works *)
(* on the workbook (sheets, active_sheet) and the selection (primary,      *)
(* ranges).                                                                *)
(***************************************************************************)
EXTENDS Integers, Sequences, FiniteSets, TLC

VARIABLES
    sheets,        \* Spreadsheet.sheets : Vec<Sheet>
    active_sheet,  \* Spreadsheet.active_sheet : usize
    wbLast,        \* history: the last workbook call, its argument and result
    cells,         \* Sheet.cells : IndexMap<CellRef, Cell>
    shLast,        \* history: the last sheet call and its arguments
    primary,       \* Selection.primary : CellRef
    ranges,        \* Selection.ranges : Vec<CellRange>
    selLast,       \* history: the last selection call and its argument
    fnArg,         \* the input handed to a function under test
    fnCall,        \* "input" before the call, then the calls made on fnArg
    fnRes,         \* what the calls returned
    scroll_position, \* GridView.scroll_position : CellRef
    editing_cell,  \* GridView.editing_cell : Option<CellRef>
    edit_buffer,   \* GridView.edit_buffer : String
    mode,          \* GridEditor.mode : EditMode
    clipboard,     \* GridEditor.clipboard : Option<Vec<Vec<CellValue>>>
    entered,       \* history: per cell, the last text finish_editing saved
    started,       \* history: the cell selected when start_editing opened
                   \* the edit in progress
    edLast         \* history: the last editor or view call, its arguments,
                   \* what it returned and what the cell held before

wbVars  == <<sheets, active_sheet, wbLast>>
shVars  == <<cells, shLast>>
selVars == <<primary, ranges, selLast>>
fnVars  == <<fnArg, fnCall, fnRes>>
edVars  == <<scroll_position, editing_cell, edit_buffer, mode, clipboard,
             entered, started, edLast>>
vars    == <<sheets, active_sheet, wbLast, cells, shLast, primary, ranges, selLast,
             fnArg, fnCall, fnRes,
             scroll_position, editing_cell, edit_buffer, mode, clipboard,
             entered, started, edLast>>

----------------------------------------------------------------------------
(* Bounds of the model.                                                    *)

\* Rows 0..MaxRow and columns 0..MaxCol of the sheet under test.
MaxRow == 1
MaxCol == 1
\* The sheet model stops inserting new keys at this many stored cells.
MaxCells == 2
\* The workbook model stops adding sheets at this many sheets.
MaxSheets == 3
\* Rows and columns 0..MaxSel that selection calls are given.
MaxSel == 2
\* The selection model stops appending ranges at this many ranges.
MaxRanges == 3

\* Rows 0..MaxA1Row and columns 0..MaxA1Col of the references given to
\* to_a1: the columns run past "ZZ" (column 701), the rows into two digits.
MaxA1Row == 10
MaxA1Col == 703
\* Texts of up to this many characters are given to CellRef::parse.
MaxA1Len == 3
\* Rows 0..MaxRangeRow and columns 0..MaxRangeCol of the corners given to
\* CellRange::new and of the ranges printed by to_range_string.
MaxRangeRow == 4
MaxRangeCol == 2
\* Texts given to CellRange::parse have up to this many ':'-separated parts.
MaxParts == 3

\* Texts of up to this many characters are given to Formula::parse.
MaxFormulaLen == 4

\* The editor is sent to the cells of row 0 in columns 0..MaxEdCol.
MaxEdCol == 1

\* Function::from_name is given every text of up to this many characters.
MaxNameLen == 3

\* The aggregates are given lists of up to this many cell values.
MaxValues == 3

\* The view's selection moves on rows and columns 0..MaxMove.
MaxMove == 1

\* usize::MAX, the start value of the minimum fold in used_range.  TLC's
\* integers are 32 bits wide; the fold only needs a value that is at least
\* every coordinate, which this is.
USIZE_MAX == 2147483647

----------------------------------------------------------------------------
(* Option<T>                                                               *)

None == [some |-> FALSE]
Some(x) == [some |-> TRUE, val |-> x]

Min(a, b) == IF a <= b THEN a ELSE b
Max(a, b) == IF a >= b THEN a ELSE b

----------------------------------------------------------------------------
(* cell.rs: CellRef, CellValue, CellStyle, Cell                            *)

CellRef_new(r, c) == [row |-> r, col |-> c]

Empty == [tag |-> "Empty"]
Number(n) == [tag |-> "Number", n |-> n]
Text(s) == [tag |-> "Text", s |-> s]

\* CellValue::Error
Error(e) == [tag |-> "Error", e |-> e]

\* CellValue::is_empty
is_empty(v) == v.tag = "Empty"

\* CellStyle: every field is an Option; only `bold` is varied, the other
\* eight fields stay None and are left out of the record.
CellStyle_default == [bold |-> None]
CellStyle_bold == [bold |-> Some(TRUE)]

Cell_new(v, f, s) == [value |-> v, formula |-> f, style |-> s]
\* Cell::with_value
Cell_with_value(v) == Cell_new(v, None, CellStyle_default)
\* Cell::with_formula
Cell_with_formula(f) == Cell_new(Empty, Some(f), CellStyle_default)

----------------------------------------------------------------------------
(* Strings.  A &str or String is the sequence of its characters, each a    *)
(* one-character string.                                                   *)

Upper == <<"A", "B", "C", "D", "E", "F", "G", "H", "I", "J", "K", "L", "M",
           "N", "O", "P", "Q", "R", "S", "T", "U", "V", "W", "X", "Y", "Z">>
Lower == <<"a", "b", "c", "d", "e", "f", "g", "h", "i", "j", "k", "l", "m",
           "n", "o", "p", "q", "r", "s", "t", "u", "v", "w", "x", "y", "z">>
Digits == <<"0", "1", "2", "3", "4", "5", "6", "7", "8", "9">>

IsIn(c, seq) == \E i \in 1..Len(seq) : seq[i] = c
IndexIn(c, seq) == CHOOSE i \in 1..Len(seq) : seq[i] = c

\* char::is_ascii_alphabetic
is_ascii_alphabetic(c) == IsIn(c, Upper) \/ IsIn(c, Lower)

\* char::is_ascii_digit
is_ascii_digit(c) == IsIn(c, Digits)

\* `c as usize` for an ASCII letter: 'A' is 65, 'a' is 97.
ord(c) ==
    IF IsIn(c, Upper) THEN 64 + IndexIn(c, Upper) ELSE 96 + IndexIn(c, Lower)

\* (b'A' + n as u8) as char, for n in 0..25
chr_from_A(n) == Upper[n + 1]

\* str::to_uppercase, on the characters the model uses (ASCII): a lowercase
\* letter becomes its capital, every other character stays.
to_uppercase(s) ==
    [i \in 1..Len(s) |->
        IF IsIn(s[i], Lower) THEN Upper[IndexIn(s[i], Lower)] ELSE s[i]]

\* char::is_whitespace, on the characters the model uses
is_whitespace(c) == c \in {" ", "\t", "\n"}

RECURSIVE trim_start(_)
trim_start(s) ==
    IF s # <<>> /\ is_whitespace(Head(s)) THEN trim_start(Tail(s)) ELSE s

RECURSIVE trim_end(_)
trim_end(s) ==
    IF s # <<>> /\ is_whitespace(s[Len(s)])
    THEN trim_end(SubSeq(s, 1, Len(s) - 1))
    ELSE s

\* str::trim
trim(s) == trim_end(trim_start(s))

\* str::starts_with(char)
starts_with(s, c) == s # <<>> /\ Head(s) = c

\* The digit fold of usize::from_str: None at the first character that is
\* not a decimal digit.  (The overflow error needs twenty digits; the inputs
\* of the model are shorter.)
RECURSIVE digits_fold(_, _)
digits_fold(s, acc) ==
    IF s = <<>> THEN Some(acc)
    ELSE IF ~is_ascii_digit(Head(s)) THEN None
    ELSE digits_fold(Tail(s), acc * 10 + (IndexIn(Head(s), Digits) - 1))

\* str::parse::<usize>().ok(): the empty string and a lone sign are errors,
\* one leading '+' is skipped, '-' is not a digit of an unsigned type.
usize_from_str(s) ==
    IF s = <<>> THEN None
    ELSE IF Len(s) = 1 /\ Head(s) \in {"+", "-"} THEN None
    ELSE IF Head(s) = "+" THEN digits_fold(Tail(s), 0)
    ELSE digits_fold(s, 0)

\* format!("{}", n) for a usize: decimal, no leading zeros.
RECURSIVE usize_to_string(_)
usize_to_string(n) ==
    IF n < 10 THEN <<Digits[n + 1]>>
    ELSE usize_to_string(n \div 10) \o <<Digits[(n % 10) + 1]>>

----------------------------------------------------------------------------
(* cell.rs: the A1 codec                                                   *)

\* The loop of CellRef::parse over the column letters: the column number
\* (1-based, 0 when there is no letter) and the characters left over.
RECURSIVE column_letters(_, _)
column_letters(s, col) ==
    IF s # <<>> /\ is_ascii_alphabetic(Head(s))
    THEN column_letters(Tail(s), col * 26 + (ord(Head(s)) - ord("A") + 1))
    ELSE [col |-> col, rest |-> s]

\* CellRef::parse after its first line, on the normalised text.
CellRef_parse_text(s) ==
    LET p   == column_letters(s, 0)
        row == usize_from_str(p.rest)
    IN  IF p.col = 0 THEN None
        ELSE IF ~row.some THEN None
        ELSE IF row.val = 0 THEN None
        ELSE Some(CellRef_new(row.val - 1, p.col - 1))

\* A plausible slip in CellRef::parse: the text is not upper-cased.
CellRef_parse_nocase(s) == CellRef_parse_text(trim(s))

\* CellRef::parse
CellRef_parse(s) == CellRef_parse_text(to_uppercase(trim(s)))

\* The loop of CellRef::to_a1: the letters of column number col (1-based),
\* put in front of col_str.
RECURSIVE column_string(_, _)
column_string(col, col_str) ==
    IF col > 0
    THEN column_string((col - 1) \div 26, <<chr_from_A((col - 1) % 26)>> \o col_str)
    ELSE col_str

\* A plausible slip in to_a1: plain base 26, the digit is taken before the
\* decrement.
RECURSIVE column_string_plain(_, _)
column_string_plain(col, col_str) ==
    IF col > 0
    THEN column_string_plain(col \div 26, <<chr_from_A(col % 26)>> \o col_str)
    ELSE col_str

CellRef_to_a1_plain(ref) ==
    column_string_plain(ref.col + 1, <<>>) \o usize_to_string(ref.row + 1)

\* CellRef::to_a1
CellRef_to_a1(ref) ==
    column_string(ref.col + 1, <<>>) \o usize_to_string(ref.row + 1)

----------------------------------------------------------------------------
(* formula.rs: Formula::parse and Formula::evaluate                        *)

\* Result<T, E>
Ok(x) == [ok |-> TRUE, val |-> x]
Err(e) == [ok |-> FALSE, err |-> e]

\* FormulaError::InvalidSyntax(msg)
InvalidSyntax(msg) == [tag |-> "InvalidSyntax", msg |-> msg]

\* FormulaExpr::Value(v)
FormulaExpr_Value(v) == [tag |-> "Value", v |-> v]

\* A plausible slip in Formula::parse: the text is not trimmed.
Formula_parse_notrim(text) ==
    IF ~starts_with(text, "=")
    THEN Err(InvalidSyntax("Formula must start with '='"))
    ELSE Ok([text |-> text, expr |-> FormulaExpr_Value(Number(0))])

\* Formula::parse: the text is trimmed, checked for its '=' and kept; the
\* expression is the placeholder Value(Number(0.0)).
Formula_parse(text) ==
    LET t == trim(text) IN
    IF ~starts_with(t, "=")
    THEN Err(InvalidSyntax("Formula must start with '='"))
    ELSE Ok([text |-> t, expr |-> FormulaExpr_Value(Number(0))])

\* Formula::evaluate: the value of a Value expression, Number(0.0) for
\* every other expression.
Formula_evaluate(f) ==
    IF f.expr.tag = "Value" THEN Ok(f.expr.v) ELSE Ok(Number(0))

----------------------------------------------------------------------------
(* sheet.rs: the sparse map.  The IndexMap<CellRef, Cell> is the function  *)
(* from its stored keys to their cells; the order in which the IndexMap    *)
(* keeps its entries is read by no call modelled here (get, get_mut, set   *)
(* and clear look a key up; used_range folds min and max over the keys).   *)

IndexMap_new == [x \in {} |-> None]

\* IndexMap::len, IndexMap::is_empty
IndexMap_len(m) == Cardinality(DOMAIN m)

\* IndexMap::keys
Keys(m) == DOMAIN m

\* IndexMap::shift_remove: drops the entry of key k, if there is one.
shift_remove(m, k) == [x \in (DOMAIN m) \ {k} |-> m[x]]

\* IndexMap::insert: replaces the value of key k, or adds the entry.
insert(m, k, c) == [x \in (DOMAIN m) \cup {k} |-> IF x = k THEN c ELSE m[x]]

\* Sheet::get
Sheet_get(m, ref) ==
    IF ref \in DOMAIN m THEN Some(m[ref]) ELSE None

\* A plausible slip in Sheet::set: || in place of &&.
Sheet_set_or(m, ref, cell) ==
    IF is_empty(cell.value) \/ ~cell.formula.some
    THEN shift_remove(m, ref)
    ELSE insert(m, ref, cell)

\* Sheet::set
Sheet_set(m, ref, cell) ==
    IF is_empty(cell.value) /\ ~cell.formula.some
    THEN shift_remove(m, ref)
    ELSE insert(m, ref, cell)

\* A plausible slip in Sheet::clear: clearing the whole map.
Sheet_clear_all(m, ref) == IndexMap_new

\* Sheet::clear
Sheet_clear(m, ref) == shift_remove(m, ref)

\* The loop of used_range over the keys ks not yet visited; acc is
\* <<min_row, min_col, max_row, max_col>>.
RECURSIVE used_range_fold(_, _)
used_range_fold(ks, acc) ==
    IF ks = {} THEN acc
    ELSE LET k == CHOOSE x \in ks : TRUE IN
         used_range_fold(ks \ {k},
            <<Min(acc[1], k.row), Min(acc[2], k.col),
              Max(acc[3], k.row), Max(acc[4], k.col)>>)

\* A plausible slip in used_range: the minima start at 0 like the maxima.
Sheet_used_range_min0(m) ==
    IF IndexMap_len(m) = 0 THEN None
    ELSE LET acc == used_range_fold(Keys(m), <<0, 0, 0, 0>>) IN
         Some(<<CellRef_new(acc[1], acc[2]), CellRef_new(acc[3], acc[4])>>)

\* Sheet::used_range
Sheet_used_range(m) ==
    IF IndexMap_len(m) = 0 THEN None
    ELSE LET acc == used_range_fold(Keys(m), <<USIZE_MAX, USIZE_MAX, 0, 0>>) IN
         Some(<<CellRef_new(acc[1], acc[2]), CellRef_new(acc[3], acc[4])>>)

\* Sheet::new(name)
Sheet_new(name) == [name |-> name, cells |-> IndexMap_new]
\* Sheet::default
Sheet_default == Sheet_new("Sheet1")

----------------------------------------------------------------------------
(* The sheet under test: inputs and actions                                *)

Refs == {CellRef_new(r, c) : r \in 0..MaxRow, c \in 0..MaxCol}

\* The cells handed to set: the empty cell, an empty cell that carries a
\* style, a cell with a value, and a cell with a formula and no value yet.
CellInputs ==
    {Cell_with_value(Empty),
     Cell_new(Empty, None, CellStyle_bold),
     Cell_with_value(Number(1)),
     Cell_with_formula("=A1")}

\* Edits made through the reference get_mut hands out:
\* c.value = CellValue::Empty and c.formula = None.
CellEdits == {"value", "formula"}
ApplyEdit(c, edit) ==
    IF edit = "value" THEN [c EXCEPT !.value = Empty]
    ELSE [c EXCEPT !.formula = None]

\* The history of the sheet: the last call, its reference, the cell it was
\* given (set) or left behind (get_mut edit), and whether the reference held
\* a cell before.
ShLast(op, ref, cell, had) ==
    [op |-> op, ref |-> ref, cell |-> cell, had |-> had]

\* No sheet call yet.
ShLast0 == ShLast("new", CellRef_new(0, 0), Cell_with_value(Empty), FALSE)

\* sheet.set(ref, cell)
SheetSet(ref, cell) ==
    /\ IndexMap_len(Sheet_set(cells, ref, cell)) <= MaxCells
    /\ cells' = Sheet_set(cells, ref, cell)
    /\ shLast' = ShLast("set", ref, cell, ref \in Keys(cells))
    /\ UNCHANGED <<wbVars, selVars, fnVars, edVars>>

\* sheet.clear(ref)
SheetClear(ref) ==
    /\ cells' = Sheet_clear(cells, ref)
    /\ shLast' = ShLast("clear", ref, Cell_with_value(Empty), ref \in Keys(cells))
    /\ UNCHANGED <<wbVars, selVars, fnVars, edVars>>

\* if let Some(c) = sheet.get_mut(ref) { c.value = CellValue::Empty } (or
\* c.formula = None): an edit in place through the mutable reference;
\* get_mut gives nothing for an absent key.
SheetGetMutEdit(ref, edit) ==
    /\ ref \in Keys(cells)
    /\ cells' = [cells EXCEPT ![ref] = ApplyEdit(@, edit)]
    /\ shLast' = ShLast("get_mut", ref, ApplyEdit(cells[ref], edit), TRUE)
    /\ UNCHANGED <<wbVars, selVars, fnVars, edVars>>

SheetNext ==
    \/ \E ref \in Refs, cell \in CellInputs : SheetSet(ref, cell)
    \/ \E ref \in Refs : SheetClear(ref)
    \/ \E ref \in Refs, edit \in CellEdits : SheetGetMutEdit(ref, edit)

----------------------------------------------------------------------------
(* spreadsheet.rs: the workbook.  Indices are 0-based as in the source;    *)
(* sheets[i + 1] is the source's sheets[i].                                *)

\* Vec::remove(index): drops the element, shifts the later ones left.
Vec_remove(v, index) == SubSeq(v, 1, index) \o SubSeq(v, index + 2, Len(v))

\* Spreadsheet::add_sheet
Spreadsheet_add_sheet(ss, name) ==
    [sheets |-> Append(ss, Sheet_new(name)), ret |-> Len(ss)]

\* A plausible slip in remove_sheet: the guard on the last sheet is left out.
Spreadsheet_remove_sheet_noguard(ss, act, index) ==
    IF index >= Len(ss)
    THEN [sheets |-> ss, active_sheet |-> act, ret |-> None]
    ELSE LET rest == Vec_remove(ss, index) IN
         [sheets |-> rest,
          active_sheet |-> IF act >= Len(rest) THEN Len(rest) - 1 ELSE act,
          ret |-> Some(ss[index + 1])]

\* A plausible slip in remove_sheet: active_sheet is not clamped.
Spreadsheet_remove_sheet_noclamp(ss, act, index) ==
    IF Len(ss) <= 1 \/ index >= Len(ss)
    THEN [sheets |-> ss, active_sheet |-> act, ret |-> None]
    ELSE [sheets |-> Vec_remove(ss, index), active_sheet |-> act,
          ret |-> Some(ss[index + 1])]

\* A plausible slip in remove_sheet: swap_remove in place of remove (the
\* last sheet takes the removed one's place).
Spreadsheet_remove_sheet_swap(ss, act, index) ==
    IF Len(ss) <= 1 \/ index >= Len(ss)
    THEN [sheets |-> ss, active_sheet |-> act, ret |-> None]
    ELSE LET rest == IF index + 1 = Len(ss) THEN SubSeq(ss, 1, Len(ss) - 1)
                     ELSE [SubSeq(ss, 1, Len(ss) - 1)
                              EXCEPT ![index + 1] = ss[Len(ss)]] IN
         [sheets |-> rest,
          active_sheet |-> IF act >= Len(rest) THEN Len(rest) - 1 ELSE act,
          ret |-> Some(ss[index + 1])]

\* Spreadsheet::remove_sheet
Spreadsheet_remove_sheet(ss, act, index) ==
    IF Len(ss) <= 1 \/ index >= Len(ss)
    THEN [sheets |-> ss, active_sheet |-> act, ret |-> None]
    ELSE LET rest == Vec_remove(ss, index) IN
         [sheets |-> rest,
          active_sheet |-> IF act >= Len(rest) THEN Len(rest) - 1 ELSE act,
          ret |-> Some(ss[index + 1])]

\* Spreadsheet::rename_sheet
Spreadsheet_rename_sheet(ss, index, name) ==
    IF index < Len(ss)
    THEN [sheets |-> [ss EXCEPT ![index + 1].name = name], ret |-> TRUE]
    ELSE [sheets |-> ss, ret |-> FALSE]

\* Spreadsheet::active
Spreadsheet_active(ss, act) == ss[act + 1]

\* Spreadsheet::sheet_count
sheet_count == Len(sheets)

SheetNames == {"A", "B"}
\* Indices handed to remove_sheet and rename_sheet: valid and invalid ones.
Indices == 0..MaxSheets

\* ret is the call's result: Option<Sheet> of remove_sheet, the index of
\* add_sheet, the bool of rename_sheet, None for a call without result.
WbLast(op, index, ret) ==
    [op |-> op, index |-> index, ret |-> ret,
     preLen |-> Len(sheets), preActive |-> active_sheet]

\* Spreadsheet::new
Spreadsheet_new == [sheets |-> <<Sheet_default>>, active_sheet |-> 0]

\* No workbook call yet.
WbLast0 ==
    [op |-> "new", index |-> 0, ret |-> None, preLen |-> 0, preActive |-> 0]

\* spreadsheet.add_sheet(name)
AddSheet(name) ==
    /\ Len(sheets) < MaxSheets
    /\ LET r == Spreadsheet_add_sheet(sheets, name) IN
        /\ sheets' = r.sheets
        /\ wbLast' = WbLast("add_sheet", r.ret, None)
    /\ UNCHANGED <<active_sheet, shVars, selVars, fnVars, edVars>>

\* spreadsheet.remove_sheet(index)
RemoveSheet(index) ==
    /\ LET r == Spreadsheet_remove_sheet(sheets, active_sheet, index) IN
        /\ sheets' = r.sheets
        /\ active_sheet' = r.active_sheet
        /\ wbLast' = WbLast("remove_sheet", index, r.ret)
    /\ UNCHANGED <<shVars, selVars, fnVars, edVars>>

\* spreadsheet.rename_sheet(index, name)
RenameSheet(index, name) ==
    /\ LET r == Spreadsheet_rename_sheet(sheets, index, name) IN
        /\ sheets' = r.sheets
        /\ wbLast' = WbLast("rename_sheet", index, r.ret)
    /\ UNCHANGED <<active_sheet, shVars, selVars, fnVars, edVars>>

\* spreadsheet.active_sheet = index, for an index that is valid then
SetActive(index) ==
    /\ index < Len(sheets)
    /\ active_sheet' = index
    /\ wbLast' = WbLast("set_active", index, None)
    /\ UNCHANGED <<sheets, shVars, selVars, fnVars, edVars>>

\* GridEditor::set_cell_value: spreadsheet.active_mut().set(cell,
\* Cell::with_value(value))
SetCellValue(ref, value) ==
    /\ sheets' = [sheets EXCEPT ![active_sheet + 1].cells =
                      Sheet_set(@, ref, Cell_with_value(value))]
    /\ wbLast' = WbLast("set_cell_value", active_sheet, None)
    /\ UNCHANGED <<active_sheet, shVars, selVars, fnVars, edVars>>

WbNext ==
    \/ \E name \in SheetNames : AddSheet(name)
    \/ \E index \in Indices : RemoveSheet(index)
    \/ \E index \in Indices, name \in SheetNames : RenameSheet(index, name)
    \/ \E index \in Indices : SetActive(index)
    \/ \E value \in {Empty, Number(1)} : SetCellValue(CellRef_new(0, 0), value)

----------------------------------------------------------------------------
(* selection.rs: CellRange and Selection                                   *)

CellRange(start, end) == [start |-> start, end |-> end]

\* A plausible slip in CellRange::new: no normalization.
CellRange_new_raw(start, end) == CellRange(start, end)

\* CellRange::new
CellRange_new(start, end) ==
    IF start.row <= end.row /\ start.col <= end.col
    THEN CellRange(start, end)
    ELSE CellRange(CellRef_new(Min(start.row, end.row), Min(start.col, end.col)),
                   CellRef_new(Max(start.row, end.row), Max(start.col, end.col)))

\* CellRange::contains
CellRange_contains(r, cell) ==
    /\ cell.row >= r.start.row
    /\ cell.row <= r.end.row
    /\ cell.col >= r.start.col
    /\ cell.col <= r.end.col

\* `end - start + 1` on usize.  Where end < start the subtraction leaves
\* usize: with overflow checks on (a debug build) the call panics, with
\* them off (a release build) the difference wraps modulo 2^64 and the + 1
\* is added to the wrapped value (so end = start - 1 gives 0).  A wrapped
\* result is the usize 2^64 + val for the negative val; decimal is the
\* result as it prints, 2^64 being 18446744073709551616.
usize_span(start, end, overflow_checks) ==
    LET d == end - start
        low == 9551616 + (d + 1)
        pad == [i \in 1..(8 - Len(usize_to_string(low))) |-> "0"]
        high == <<"1", "8", "4", "4", "6", "7", "4", "4", "0", "7", "3", "7">>
    IN  IF d >= 0
        THEN [panic |-> FALSE, wrapped |-> FALSE, val |-> d + 1,
              decimal |-> usize_to_string(d + 1)]
        ELSE IF overflow_checks
        THEN [panic |-> TRUE, wrapped |-> FALSE, val |-> 0, decimal |-> <<>>]
        ELSE IF d = 0 - 1
        THEN [panic |-> FALSE, wrapped |-> FALSE, val |-> 0, decimal |-> <<"0">>]
        ELSE [panic |-> FALSE, wrapped |-> TRUE, val |-> d + 1,
              decimal |-> high \o pad \o usize_to_string(low)]

\* CellRange::row_count, CellRange::col_count: whether the call panics and
\* the count it returns when it does not.
CellRange_row_count(r, overflow_checks) ==
    usize_span(r.start.row, r.end.row, overflow_checks)
CellRange_col_count(r, overflow_checks) ==
    usize_span(r.start.col, r.end.col, overflow_checks)

\* CellRange::cells: the cells in row-major order (start..=end is empty
\* when start > end).
CellRange_cells(r) ==
    LET nrows == IF r.end.row >= r.start.row
                 THEN r.end.row - r.start.row + 1 ELSE 0
        ncols == IF r.end.col >= r.start.col
                 THEN r.end.col - r.start.col + 1 ELSE 0
    IN  [i \in 1..(nrows * ncols) |->
            CellRef_new(r.start.row + ((i - 1) \div ncols),
                        r.start.col + ((i - 1) % ncols))]

\* str::split(sep) collected into a Vec: the pieces between the separators
\* (one piece, the whole text, when there is no separator).
RECURSIVE split(_, _)
split(s, sep) ==
    IF ~IsIn(sep, s) THEN <<s>>
    ELSE LET i == CHOOSE k \in 1..Len(s) :
                      s[k] = sep /\ \A j \in 1..(k - 1) : s[j] # sep
         IN  <<SubSeq(s, 1, i - 1)>> \o split(SubSeq(s, i + 1, Len(s)), sep)

\* CellRange::parse
CellRange_parse(s) ==
    LET parts == split(s, ":") IN
    IF Len(parts) # 2 THEN None
    ELSE LET start == CellRef_parse(parts[1])
             end   == CellRef_parse(parts[2])
         IN  IF ~start.some THEN None
             ELSE IF ~end.some THEN None
             ELSE Some(CellRange_new(start.val, end.val))

\* CellRange::to_range_string
CellRange_to_range_string(r) ==
    CellRef_to_a1(r.start) \o <<":">> \o CellRef_to_a1(r.end)

\* Selection::new
Selection_new(cell) ==
    [primary |-> cell, ranges |-> <<CellRange_new(cell, cell)>>]

\* Selection::from_range
Selection_from_range(range) ==
    [primary |-> range.end, ranges |-> <<range>>]

\* Selection::default
Selection_default == Selection_new(CellRef_new(0, 0))

\* A plausible slip in extend_to: the new range is the end cell alone.
Selection_extend_to_end_only(sel, end) ==
    [primary |-> sel.primary, ranges |-> <<CellRange_new(end, end)>>]

\* A plausible slip in extend_to: the range is pushed, not assigned.
Selection_extend_to_push(sel, end) ==
    [primary |-> sel.primary,
     ranges |-> Append(sel.ranges, CellRange_new(sel.primary, end))]

\* Selection::extend_to
Selection_extend_to(sel, end) ==
    [primary |-> sel.primary,
     ranges |-> <<CellRange_new(sel.primary, end)>>]

\* A plausible slip in add_range: primary is set to range.start.
Selection_add_range_start(sel, range) ==
    [primary |-> range.start, ranges |-> Append(sel.ranges, range)]

\* Selection::add_range
Selection_add_range(sel, range) ==
    [primary |-> range.end, ranges |-> Append(sel.ranges, range)]

\* A plausible slip in set: primary moves, the ranges are left as they were.
Selection_set_primary_only(sel, cell) ==
    [primary |-> cell, ranges |-> sel.ranges]

\* A plausible slip in set: the range list is cleared and left empty.
Selection_set_clear(sel, cell) ==
    [primary |-> cell, ranges |-> <<>>]

\* Selection::set
Selection_set(sel, cell) ==
    [primary |-> cell, ranges |-> <<CellRange_new(cell, cell)>>]

\* Selection::is_selected
Selection_is_selected(sel, cell) ==
    \E i \in 1..Len(sel.ranges) : CellRange_contains(sel.ranges[i], cell)

\* Selection::cells: the ranges' cells collected into a HashSet
Selection_cells(sel) ==
    UNION {{CellRange_cells(sel.ranges[i])[j] :
               j \in 1..Len(CellRange_cells(sel.ranges[i]))} :
           i \in 1..Len(sel.ranges)}

\* The sizes of normalized ranges, whose counts neither panic nor wrap.
RECURSIVE SumOfSizes(_)
SumOfSizes(rs) ==
    IF rs = <<>> THEN 0
    ELSE CellRange_row_count(Head(rs), TRUE).val
             * CellRange_col_count(Head(rs), TRUE).val
             + SumOfSizes(Tail(rs))

\* A plausible slip in cell_count: the sizes of the ranges are added up.
Selection_cell_count_sum(sel) == SumOfSizes(sel.ranges)

\* Selection::cell_count
Selection_cell_count(sel) == Cardinality(Selection_cells(sel))

\* The selection as a value.
Sel == [primary |-> primary, ranges |-> ranges]

SelCells == {CellRef_new(r, c) : r \in 0..MaxSel, c \in 0..MaxSel}

\* Ranges handed to from_range and add_range, built with CellRange::new
\* from these corners in either order.
RangeCorners == {CellRef_new(0, 0), CellRef_new(1, 1), CellRef_new(MaxSel, MaxSel)}
RangeInputs == {CellRange_new(a, b) : a \in RangeCorners, b \in RangeCorners}

NoCell == CellRef_new(0, 0)
NoRange == CellRange(NoCell, NoCell)

SelLast(op, cell, range) ==
    [op |-> op, cell |-> cell, range |-> range, prev |-> selLast.op]

SelLast0(op, cell, range) ==
    [op |-> op, cell |-> cell, range |-> range, prev |-> "none"]

\* The selections a session starts from: Selection::default(),
\* Selection::new(cell), Selection::from_range(range), each with the
\* history entry naming its constructor.
SelInitial ==
    {[sel |-> Selection_default, last |-> SelLast0("default", NoCell, NoRange)]}
    \cup {[sel |-> Selection_new(cell), last |-> SelLast0("new", cell, NoRange)] :
             cell \in SelCells}
    \cup {[sel |-> Selection_from_range(range),
           last |-> SelLast0("from_range", NoCell, range)] :
             range \in RangeInputs}

\* selection.extend_to(end)
ExtendTo(end) ==
    /\ LET r == Selection_extend_to(Sel, end) IN
        /\ primary' = r.primary
        /\ ranges' = r.ranges
    /\ selLast' = SelLast("extend_to", end, NoRange)
    /\ UNCHANGED <<wbVars, shVars, fnVars, edVars>>

\* selection.add_range(range)
AddRange(range) ==
    /\ Len(ranges) < MaxRanges
    /\ LET r == Selection_add_range(Sel, range) IN
        /\ primary' = r.primary
        /\ ranges' = r.ranges
    /\ selLast' = SelLast("add_range", NoCell, range)
    /\ UNCHANGED <<wbVars, shVars, fnVars, edVars>>

\* selection.set(cell)
SelSet(cell) ==
    /\ LET r == Selection_set(Sel, cell) IN
        /\ primary' = r.primary
        /\ ranges' = r.ranges
    /\ selLast' = SelLast("set", cell, NoRange)
    /\ UNCHANGED <<wbVars, shVars, fnVars, edVars>>

SelNext ==
    \/ \E end \in SelCells : ExtendTo(end)
    \/ \E range \in RangeInputs : AddRange(range)
    \/ \E cell \in SelCells : SelSet(cell)

----------------------------------------------------------------------------
(* The A1 codec under test: a text is parsed, or a reference is printed,   *)
(* parsed back and printed again.                                          *)

\* All texts of up to n characters over chars.
Texts(chars, n) == UNION {[1..k -> chars] : k \in 0..n}

A1Chars == {"A", "B", "Z", "a", "z", "0", "1", "3", "+", "-", " ", "$"}
A1Texts == Texts(A1Chars, MaxA1Len)
A1Refs == {CellRef_new(r, c) : r \in 0..MaxA1Row, c \in 0..MaxA1Col}

A1Inputs ==
    {[kind |-> "text", s |-> s] : s \in A1Texts}
    \cup {[kind |-> "ref", ref |-> ref] : ref \in A1Refs}

\* CellRef::parse(s)
A1Parse ==
    /\ fnCall = "input"
    /\ fnArg.kind = "text"
    /\ fnCall' = "parse"
    /\ fnRes' = CellRef_parse(fnArg.s)
    /\ UNCHANGED <<fnArg, wbVars, shVars, selVars, edVars>>

\* ref.to_a1()
A1ToA1 ==
    /\ fnCall = "input"
    /\ fnArg.kind = "ref"
    /\ fnCall' = "to_a1"
    /\ fnRes' = [a1 |-> CellRef_to_a1(fnArg.ref)]
    /\ UNCHANGED <<fnArg, wbVars, shVars, selVars, edVars>>

\* CellRef::parse(&a1) on the text to_a1 returned
A1ParseBack ==
    /\ fnCall = "to_a1"
    /\ fnCall' = "to_a1,parse"
    /\ fnRes' = [a1 |-> fnRes.a1, back |-> CellRef_parse(fnRes.a1)]
    /\ UNCHANGED <<fnArg, wbVars, shVars, selVars, edVars>>

\* back.unwrap().to_a1() on the reference the parse returned
A1PrintAgain ==
    /\ fnCall = "to_a1,parse"
    /\ fnRes.back.some
    /\ fnCall' = "to_a1,parse,to_a1"
    /\ fnRes' = [a1 |-> fnRes.a1, back |-> fnRes.back,
                 again |-> CellRef_to_a1(fnRes.back.val)]
    /\ UNCHANGED <<fnArg, wbVars, shVars, selVars, edVars>>

A1Next ==
    \/ A1Parse
    \/ A1ToA1
    \/ A1ParseBack
    \/ A1PrintAgain

----------------------------------------------------------------------------
(* CellRange::new and the range-string codec under test                    *)

RangeRefs == {CellRef_new(r, c) : r \in 0..MaxRangeRow, c \in 0..MaxRangeCol}

\* The ':'-separated parts a range text is put together from.
RangeParts ==
    {<<>>, <<"A", "1">>, <<"C", "5">>, <<"b", "2">>, <<"A">>, <<"5">>,
     <<"A", "+", "1">>}

RECURSIVE join(_, _)
join(parts, sep) ==
    IF Len(parts) = 1 THEN parts[1]
    ELSE parts[1] \o <<sep>> \o join(Tail(parts), sep)

RangeTexts ==
    {join(ps, ":") : ps \in UNION {[1..k -> RangeParts] : k \in 1..MaxParts}}

RangeCalls ==
    {[kind |-> "corners", a |-> a, b |-> b] : a \in RangeRefs, b \in RangeRefs}
    \cup {[kind |-> "range", r |-> CellRange_new(a, b)] :
             a \in RangeRefs, b \in RangeRefs}
    \cup {[kind |-> "text", s |-> s] : s \in RangeTexts}

\* CellRange::new(a, b), and CellRange::new(b, a) beside it
RangeNew ==
    /\ fnCall = "input"
    /\ fnArg.kind = "corners"
    /\ fnCall' = "new"
    /\ fnRes' = [ab |-> CellRange_new(fnArg.a, fnArg.b),
                 ba |-> CellRange_new(fnArg.b, fnArg.a)]
    /\ UNCHANGED <<fnArg, wbVars, shVars, selVars, edVars>>

\* CellRange::parse(s)
RangeParse ==
    /\ fnCall = "input"
    /\ fnArg.kind = "text"
    /\ fnCall' = "parse"
    /\ fnRes' = CellRange_parse(fnArg.s)
    /\ UNCHANGED <<fnArg, wbVars, shVars, selVars, edVars>>

\* r.to_range_string()
RangeToString ==
    /\ fnCall = "input"
    /\ fnArg.kind = "range"
    /\ fnCall' = "to_range_string"
    /\ fnRes' = [text |-> CellRange_to_range_string(fnArg.r)]
    /\ UNCHANGED <<fnArg, wbVars, shVars, selVars, edVars>>

\* CellRange::parse(&text) on the text to_range_string returned
RangeParseBack ==
    /\ fnCall = "to_range_string"
    /\ fnCall' = "to_range_string,parse"
    /\ fnRes' = [text |-> fnRes.text, back |-> CellRange_parse(fnRes.text)]
    /\ UNCHANGED <<fnArg, wbVars, shVars, selVars, edVars>>

\* CellRange { start: a, end: b }.row_count() and .col_count(): the
\* fields are public, the range is taken as it is given.
RangeCounts ==
    /\ fnCall = "input"
    /\ fnArg.kind = "corners"
    /\ fnCall' = "row_count,col_count"
    /\ \E overflow_checks \in BOOLEAN :
          fnRes' = [overflow_checks |-> overflow_checks,
                    rows |-> CellRange_row_count(CellRange(fnArg.a, fnArg.b),
                                                 overflow_checks),
                    cols |-> CellRange_col_count(CellRange(fnArg.a, fnArg.b),
                                                 overflow_checks)]
    /\ UNCHANGED <<fnArg, wbVars, shVars, selVars, edVars>>

RangeNext ==
    \/ RangeNew
    \/ RangeParse
    \/ RangeToString
    \/ RangeParseBack
    \/ RangeCounts

----------------------------------------------------------------------------
(* Formula::parse under test                                               *)

FormulaChars == {"=", " ", "A", "1"}
FormulaTexts == Texts(FormulaChars, MaxFormulaLen)

\* Formula::parse(text)
FormulaParse ==
    /\ fnCall = "input"
    /\ fnCall' = "parse"
    /\ fnRes' = Formula_parse(fnArg)
    /\ UNCHANGED <<fnArg, wbVars, shVars, selVars, edVars>>

\* formula.evaluate(&context) on the formula the parse returned
FormulaEvaluate ==
    /\ fnCall = "parse"
    /\ fnRes.ok
    /\ fnCall' = "parse,evaluate"
    /\ fnRes' = [ok |-> TRUE, val |-> fnRes.val,
                 value |-> Formula_evaluate(fnRes.val)]
    /\ UNCHANGED <<fnArg, wbVars, shVars, selVars, edVars>>

FormulaNext ==
    \/ FormulaParse
    \/ FormulaEvaluate

----------------------------------------------------------------------------
(* evaluator.rs: Function.  A variant of the enum is the string of its     *)
(* name in the source; the names the match arms spell are written out as   *)
(* character sequences.                                                    *)

\* The string literals of the arms of from_name, by their text
ArmNames ==
    ("SUM" :> <<"S", "U", "M">>) @@
    ("AVERAGE" :> <<"A", "V", "E", "R", "A", "G", "E">>) @@
    ("AVG" :> <<"A", "V", "G">>) @@
    ("COUNT" :> <<"C", "O", "U", "N", "T">>) @@
    ("COUNTA" :> <<"C", "O", "U", "N", "T", "A">>) @@
    ("MAX" :> <<"M", "A", "X">>) @@
    ("MIN" :> <<"M", "I", "N">>) @@
    ("ABS" :> <<"A", "B", "S">>) @@
    ("ROUND" :> <<"R", "O", "U", "N", "D">>) @@
    ("FLOOR" :> <<"F", "L", "O", "O", "R">>) @@
    ("CEIL" :> <<"C", "E", "I", "L">>) @@
    ("CEILING" :> <<"C", "E", "I", "L", "I", "N", "G">>) @@
    ("SQRT" :> <<"S", "Q", "R", "T">>) @@
    ("POWER" :> <<"P", "O", "W", "E", "R">>) @@
    ("POW" :> <<"P", "O", "W">>) @@
    ("IF" :> <<"I", "F">>) @@
    ("AND" :> <<"A", "N", "D">>) @@
    ("OR" :> <<"O", "R">>) @@
    ("NOT" :> <<"N", "O", "T">>) @@
    ("TRUE" :> <<"T", "R", "U", "E">>) @@
    ("FALSE" :> <<"F", "A", "L", "S", "E">>) @@
    ("CONCATENATE" :> <<"C", "O", "N", "C", "A", "T", "E", "N", "A", "T", "E">>) @@
    ("CONCAT" :> <<"C", "O", "N", "C", "A", "T">>) @@
    ("LEN" :> <<"L", "E", "N">>) @@
    ("LENGTH" :> <<"L", "E", "N", "G", "T", "H">>) @@
    ("UPPER" :> <<"U", "P", "P", "E", "R">>) @@
    ("LOWER" :> <<"L", "O", "W", "E", "R">>) @@
    ("TRIM" :> <<"T", "R", "I", "M">>) @@
    ("LEFT" :> <<"L", "E", "F", "T">>) @@
    ("RIGHT" :> <<"R", "I", "G", "H", "T">>) @@
    ("MID" :> <<"M", "I", "D">>) @@
    ("FIND" :> <<"F", "I", "N", "D">>) @@
    ("SEARCH" :> <<"S", "E", "A", "R", "C", "H">>) @@
    ("SUBSTITUTE" :> <<"S", "U", "B", "S", "T", "I", "T", "U", "T", "E">>) @@
    ("REPLACE" :> <<"R", "E", "P", "L", "A", "C", "E">>) @@
    ("CHAR" :> <<"C", "H", "A", "R">>) @@
    ("CODE" :> <<"C", "O", "D", "E">>) @@
    ("TODAY" :> <<"T", "O", "D", "A", "Y">>) @@
    ("NOW" :> <<"N", "O", "W">>)

\* enum Function
Functions ==
    {"Sum", "Average", "Count", "CountA", "Max", "Min",
     "Abs", "Round", "Floor", "Ceil", "Sqrt", "Power",
     "If", "And", "Or", "Not", "True_", "False_",
     "Concatenate", "Len", "Upper", "Lower", "Trim", "Left",
     "Right", "Mid", "Find", "Substitute", "Char", "Code",
     "Today", "Now"}

\* A plausible slip in from_name: the name is matched as it is written.
Function_from_name_exact(name) ==
    LET u == name IN
        CASE u = ArmNames["SUM"] -> Some("Sum")
          [] u = ArmNames["AVERAGE"] \/ u = ArmNames["AVG"] -> Some("Average")
          [] u = ArmNames["COUNT"] -> Some("Count")
          [] u = ArmNames["COUNTA"] -> Some("CountA")
          [] u = ArmNames["MAX"] -> Some("Max")
          [] u = ArmNames["MIN"] -> Some("Min")
          [] u = ArmNames["ABS"] -> Some("Abs")
          [] u = ArmNames["ROUND"] -> Some("Round")
          [] u = ArmNames["FLOOR"] -> Some("Floor")
          [] u = ArmNames["CEIL"] \/ u = ArmNames["CEILING"] -> Some("Ceil")
          [] u = ArmNames["SQRT"] -> Some("Sqrt")
          [] u = ArmNames["POWER"] \/ u = ArmNames["POW"] -> Some("Power")
          [] u = ArmNames["IF"] -> Some("If")
          [] u = ArmNames["AND"] -> Some("And")
          [] u = ArmNames["OR"] -> Some("Or")
          [] u = ArmNames["NOT"] -> Some("Not")
          [] u = ArmNames["TRUE"] -> Some("True_")
          [] u = ArmNames["FALSE"] -> Some("False_")
          [] u = ArmNames["CONCATENATE"] \/ u = ArmNames["CONCAT"] -> Some("Concatenate")
          [] u = ArmNames["LEN"] \/ u = ArmNames["LENGTH"] -> Some("Len")
          [] u = ArmNames["UPPER"] -> Some("Upper")
          [] u = ArmNames["LOWER"] -> Some("Lower")
          [] u = ArmNames["TRIM"] -> Some("Trim")
          [] u = ArmNames["LEFT"] -> Some("Left")
          [] u = ArmNames["RIGHT"] -> Some("Right")
          [] u = ArmNames["MID"] -> Some("Mid")
          [] u = ArmNames["FIND"] \/ u = ArmNames["SEARCH"] -> Some("Find")
          [] u = ArmNames["SUBSTITUTE"] \/ u = ArmNames["REPLACE"] -> Some("Substitute")
          [] u = ArmNames["CHAR"] -> Some("Char")
          [] u = ArmNames["CODE"] -> Some("Code")
          [] u = ArmNames["TODAY"] -> Some("Today")
          [] u = ArmNames["NOW"] -> Some("Now")
          [] OTHER -> None

\* Function::from_name: name.to_uppercase() matched against the arms
Function_from_name(name) ==
    LET u == to_uppercase(name) IN
        CASE u = ArmNames["SUM"] -> Some("Sum")
          [] u = ArmNames["AVERAGE"] \/ u = ArmNames["AVG"] -> Some("Average")
          [] u = ArmNames["COUNT"] -> Some("Count")
          [] u = ArmNames["COUNTA"] -> Some("CountA")
          [] u = ArmNames["MAX"] -> Some("Max")
          [] u = ArmNames["MIN"] -> Some("Min")
          [] u = ArmNames["ABS"] -> Some("Abs")
          [] u = ArmNames["ROUND"] -> Some("Round")
          [] u = ArmNames["FLOOR"] -> Some("Floor")
          [] u = ArmNames["CEIL"] \/ u = ArmNames["CEILING"] -> Some("Ceil")
          [] u = ArmNames["SQRT"] -> Some("Sqrt")
          [] u = ArmNames["POWER"] \/ u = ArmNames["POW"] -> Some("Power")
          [] u = ArmNames["IF"] -> Some("If")
          [] u = ArmNames["AND"] -> Some("And")
          [] u = ArmNames["OR"] -> Some("Or")
          [] u = ArmNames["NOT"] -> Some("Not")
          [] u = ArmNames["TRUE"] -> Some("True_")
          [] u = ArmNames["FALSE"] -> Some("False_")
          [] u = ArmNames["CONCATENATE"] \/ u = ArmNames["CONCAT"] -> Some("Concatenate")
          [] u = ArmNames["LEN"] \/ u = ArmNames["LENGTH"] -> Some("Len")
          [] u = ArmNames["UPPER"] -> Some("Upper")
          [] u = ArmNames["LOWER"] -> Some("Lower")
          [] u = ArmNames["TRIM"] -> Some("Trim")
          [] u = ArmNames["LEFT"] -> Some("Left")
          [] u = ArmNames["RIGHT"] -> Some("Right")
          [] u = ArmNames["MID"] -> Some("Mid")
          [] u = ArmNames["FIND"] \/ u = ArmNames["SEARCH"] -> Some("Find")
          [] u = ArmNames["SUBSTITUTE"] \/ u = ArmNames["REPLACE"] -> Some("Substitute")
          [] u = ArmNames["CHAR"] -> Some("Char")
          [] u = ArmNames["CODE"] -> Some("Code")
          [] u = ArmNames["TODAY"] -> Some("Today")
          [] u = ArmNames["NOW"] -> Some("Now")
          [] OTHER -> None

\* Function::name
Function_name(f) ==
    CASE f = "Sum" -> ArmNames["SUM"]
      [] f = "Average" -> ArmNames["AVERAGE"]
      [] f = "Count" -> ArmNames["COUNT"]
      [] f = "CountA" -> ArmNames["COUNTA"]
      [] f = "Max" -> ArmNames["MAX"]
      [] f = "Min" -> ArmNames["MIN"]
      [] f = "Abs" -> ArmNames["ABS"]
      [] f = "Round" -> ArmNames["ROUND"]
      [] f = "Floor" -> ArmNames["FLOOR"]
      [] f = "Ceil" -> ArmNames["CEIL"]
      [] f = "Sqrt" -> ArmNames["SQRT"]
      [] f = "Power" -> ArmNames["POWER"]
      [] f = "If" -> ArmNames["IF"]
      [] f = "And" -> ArmNames["AND"]
      [] f = "Or" -> ArmNames["OR"]
      [] f = "Not" -> ArmNames["NOT"]
      [] f = "True_" -> ArmNames["TRUE"]
      [] f = "False_" -> ArmNames["FALSE"]
      [] f = "Concatenate" -> ArmNames["CONCATENATE"]
      [] f = "Len" -> ArmNames["LEN"]
      [] f = "Upper" -> ArmNames["UPPER"]
      [] f = "Lower" -> ArmNames["LOWER"]
      [] f = "Trim" -> ArmNames["TRIM"]
      [] f = "Left" -> ArmNames["LEFT"]
      [] f = "Right" -> ArmNames["RIGHT"]
      [] f = "Mid" -> ArmNames["MID"]
      [] f = "Find" -> ArmNames["FIND"]
      [] f = "Substitute" -> ArmNames["SUBSTITUTE"]
      [] f = "Char" -> ArmNames["CHAR"]
      [] f = "Code" -> ArmNames["CODE"]
      [] f = "Today" -> ArmNames["TODAY"]
      [] f = "Now" -> ArmNames["NOW"]

\* The names the arms spell
TableNames == {ArmNames[k] : k \in DOMAIN ArmNames}

\* str::to_lowercase, on the characters the model uses (ASCII)
to_lowercase(s) ==
    [i \in 1..Len(s) |->
        IF IsIn(s[i], Upper) THEN Lower[IndexIn(s[i], Upper)] ELSE s[i]]

\* A name with its letters in alternating case, the first one lowered.
alternating_case(s) ==
    [i \in 1..Len(s) |->
        IF i % 2 = 1 THEN to_lowercase(<<s[i]>>)[1] ELSE to_uppercase(<<s[i]>>)[1]]

\* The names from_name is called with: each literal as written, lowered and
\* in alternating case, each literal with a character more or less, and
\* every text of up to MaxNameLen characters of NameChars.
NameChars == {"I", "F", "f", "O", "R", "r", " "}
NameInputs ==
    UNION {{n, to_lowercase(n), alternating_case(n),
            n \o <<"S">>, <<" ">> \o n, n \o <<" ">>, Tail(n)} : n \in TableNames}
      \cup Texts(NameChars, MaxNameLen)

\* Function::from_name(name)
FunctionFromName ==
    /\ fnCall = "input"
    /\ fnCall' = "from_name"
    /\ fnRes' = Function_from_name(fnArg)
    /\ UNCHANGED <<fnArg, wbVars, shVars, selVars, edVars>>

\* Function::from_name(f.name()) on the function from_name returned
FunctionNameBack ==
    /\ fnCall = "from_name"
    /\ fnRes.some
    /\ fnCall' = "from_name,name,from_name"
    /\ fnRes' = [function |-> fnRes.val,
                 name |-> Function_name(fnRes.val),
                 back |-> Function_from_name(Function_name(fnRes.val))]
    /\ UNCHANGED <<fnArg, wbVars, shVars, selVars, edVars>>

FunctionNext ==
    \/ FunctionFromName
    \/ FunctionNameBack

----------------------------------------------------------------------------
(* view.rs and editor.rs: GridView and GridEditor.  The editor's           *)
(* spreadsheet is (sheets, active_sheet), its view's selection is          *)
(* (primary, ranges).                                                      *)

\* GridView::new: visible_rows and visible_cols
visible_rows == 20
visible_cols == 10

\* GridView::new, the fields the editor reads or writes (the pixel sizes and
\* the zoom are left out).
GridView_new ==
    [scroll_position |-> CellRef_new(0, 0),
     selection |-> Selection_default,
     editing_cell |-> None,
     edit_buffer |-> <<>>]

\* usize::saturating_sub
saturating_sub(a, b) == IF a >= b THEN a - b ELSE 0

\* GridView::scroll_to_cell: the scroll position after the call
GridView_scroll_to_cell(scroll, cell) ==
    [row |-> IF cell.row < scroll.row THEN cell.row
             ELSE IF cell.row >= scroll.row + visible_rows
                  THEN saturating_sub(cell.row, visible_rows - 1)
                  ELSE scroll.row,
     col |-> IF cell.col < scroll.col THEN cell.col
             ELSE IF cell.col >= scroll.col + visible_cols
                  THEN saturating_sub(cell.col, visible_cols - 1)
                  ELSE scroll.col]

\* str::parse::<f64>().ok() on the texts of the model: an optional sign and
\* decimal digits give the number, every other text of the model is an
\* error.  (Fractions, exponents, "inf" and "nan", which f64::from_str also
\* reads, are not among them.)
f64_from_str(s) ==
    LET signed == s # <<>> /\ Head(s) \in {"+", "-"}
        body   == IF signed THEN Tail(s) ELSE s
        v      == IF body = <<>> THEN None ELSE digits_fold(body, 0)
    IN  IF ~v.some THEN None
        ELSE IF Head(s) = "-" THEN Some(0 - v.val)
        ELSE v

\* format!("{}", n) for an f64 that is a whole number: no fraction is
\* printed.
f64_to_string(n) ==
    IF n < 0 THEN <<"-">> \o usize_to_string(0 - n) ELSE usize_to_string(n)

\* CellValue::to_display_string, for the values the editor stores
CellValue_to_display_string(v) ==
    IF v.tag = "Empty" THEN <<>>
    ELSE IF v.tag = "Text" THEN v.s
    ELSE f64_to_string(v.n)

\* GridEditor::get_cell_value
GridEditor_get_cell_value(ss, act, cell) ==
    LET c == Sheet_get(Spreadsheet_active(ss, act).cells, cell) IN
    IF c.some THEN Some(c.val.value) ELSE None

\* GridEditor::set_cell_value: the sheets after the call
GridEditor_set_cell_value(ss, act, cell, value) ==
    [ss EXCEPT ![act + 1].cells = Sheet_set(@, cell, Cell_with_value(value))]

\* GridEditor::finish_editing, the value made of the text: a text that
\* begins with '=' is kept as Text (no formula is parsed), a number is
\* Number, any other text is Text.
GridEditor_entry_value(value) ==
    IF starts_with(value, "=") THEN Text(value)
    ELSE IF f64_from_str(value).some THEN Number(f64_from_str(value).val)
    ELSE Text(value)

\* i32::MAX; i32::MIN is -i32::MAX - 1
I32_MAX == 2147483647

\* a + b on i32.  A sum outside i32 panics where overflow checks are on (a
\* debug build) and wraps modulo 2^32 where they are off (a release build);
\* the wrapped sum is computed without leaving 32 bits.
i32_add(a, b, overflow_checks) ==
    LET min  == (0 - I32_MAX) - 1
        fits == IF b >= 0 THEN a <= I32_MAX - b ELSE a >= min - b
        wrapped == IF b >= 0 THEN ((a - I32_MAX) - 1) + ((b - I32_MAX) - 1)
                   ELSE ((a + I32_MAX) + 1) + ((b + I32_MAX) + 1)
    IN  IF fits THEN [panic |-> FALSE, val |-> a + b]
        ELSE IF overflow_checks THEN [panic |-> TRUE, val |-> 0]
        ELSE [panic |-> FALSE, val |-> wrapped]

\* GridView::move_selection: whether the call panics and, when it does not,
\* the cell it selects and scrolls to.  `as i32` is the identity on the
\* coordinates of the model, which are below 2^31.
GridView_move_selection(current, dx, dy, overflow_checks) ==
    LET c == i32_add(current.col, dx, overflow_checks)
        r == i32_add(current.row, dy, overflow_checks)
    IN  [panic |-> c.panic \/ r.panic,
         new_cell |-> CellRef_new(Max(r.val, 0), Max(c.val, 0))]

\* A plausible slip in finish_edit: editing_cell is not reset.
GridView_finish_edit_keep(editing, buffer) ==
    IF editing.some
    THEN [editing_cell |-> editing, edit_buffer |-> <<>>,
          ret |-> Some(<<editing.val, buffer>>)]
    ELSE [editing_cell |-> editing, edit_buffer |-> buffer, ret |-> None]

\* GridView::finish_edit: the view after the call and what the call returns
GridView_finish_edit(editing, buffer) ==
    IF editing.some
    THEN [editing_cell |-> None, edit_buffer |-> <<>>,
          ret |-> Some(<<editing.val, buffer>>)]
    ELSE [editing_cell |-> editing, edit_buffer |-> buffer, ret |-> None]

\* GridEditor::delete_cell: the sheets after the call
GridEditor_delete_cell(ss, act, cell) ==
    GridEditor_set_cell_value(ss, act, cell, Empty)

\* A plausible slip in copy: the display string is put on the clipboard.
GridEditor_copy_display(ss, act, cell, clip) ==
    LET value == GridEditor_get_cell_value(ss, act, cell) IN
    IF value.some THEN Some(<<<<Text(CellValue_to_display_string(value.val))>>>>)
    ELSE clip

\* GridEditor::copy: the clipboard after the call
GridEditor_copy(ss, act, cell, clip) ==
    LET value == GridEditor_get_cell_value(ss, act, cell) IN
    IF value.some THEN Some(<<<<value.val>>>>) ELSE clip

\* GridEditor::paste: the sheets after the call
GridEditor_paste(ss, act, cell, clip) ==
    IF clip.some /\ clip.val # <<>> /\ clip.val[1] # <<>>
    THEN GridEditor_set_cell_value(ss, act, cell, clip.val[1][1])
    ELSE ss

EdCells == {CellRef_new(0, c) : c \in 0..MaxEdCol}

\* The texts typed into the edit buffer.
EditTexts ==
    {<<"=", "A", "1", "+", "1">>, <<"=", "B", "1", "+", "1">>,
     <<"=", "1", "+">>, <<"4", "2">>}

EdLast(op, cell, text, prior) ==
    [op |-> op, cell |-> cell, text |-> text, prior |-> prior]

EdCall(op) == EdLast(op, None, <<>>, None)

\* editor.goto_cell(cell)
GotoCell(cell) ==
    /\ LET r == Selection_set(Sel, cell) IN
        /\ primary' = r.primary
        /\ ranges' = r.ranges
    /\ scroll_position' = GridView_scroll_to_cell(scroll_position, cell)
    /\ edLast' = EdCall("goto_cell")
    /\ UNCHANGED <<editing_cell, edit_buffer, mode, clipboard, entered, started>>
    /\ UNCHANGED <<wbVars, shVars, selLast, fnVars>>

\* editor.start_editing(): view.start_edit(selected cell, its display
\* string or "") and mode = Edit
StartEditing ==
    /\ LET cell  == primary
           v     == GridEditor_get_cell_value(sheets, active_sheet, cell)
           value == IF v.some THEN CellValue_to_display_string(v.val) ELSE <<>>
       IN  /\ editing_cell' = Some(cell)
           /\ edit_buffer' = value
           /\ scroll_position' = GridView_scroll_to_cell(scroll_position, cell)
    /\ mode' = "Edit"
    /\ started' = Some(primary)
    /\ edLast' = EdCall("start_editing")
    /\ UNCHANGED <<clipboard, entered>>
    /\ UNCHANGED <<wbVars, shVars, selVars, fnVars>>

\* editor.update_edit_text(text)
UpdateEditText(text) ==
    /\ edit_buffer' = text
    /\ edLast' = EdCall("update_edit_text")
    /\ UNCHANGED <<scroll_position, editing_cell, mode, clipboard, entered, started>>
    /\ UNCHANGED <<wbVars, shVars, selVars, fnVars>>

\* editor.finish_editing(): view.finish_edit() takes the cell and the
\* buffer when a cell is being edited, the value made of the text is set,
\* and mode = Normal in either case.
FinishEditing ==
    /\ editing_cell' = GridView_finish_edit(editing_cell, edit_buffer).editing_cell
    /\ edit_buffer' = GridView_finish_edit(editing_cell, edit_buffer).edit_buffer
    /\ IF GridView_finish_edit(editing_cell, edit_buffer).ret.some
       THEN LET r     == GridView_finish_edit(editing_cell, edit_buffer).ret.val
                cell  == r[1]
                value == r[2]
            IN  /\ sheets' = GridEditor_set_cell_value(sheets, active_sheet, cell,
                                 GridEditor_entry_value(value))
                /\ entered' = [entered EXCEPT ![cell] = Some(value)]
                /\ edLast' = [op |-> "finish_editing", cell |-> Some(cell),
                              text |-> value,
                              prior |-> GridEditor_get_cell_value(sheets,
                                            active_sheet, cell),
                              origin |-> started]
       ELSE /\ UNCHANGED <<sheets, entered>>
            /\ edLast' = EdCall("finish_editing")
    /\ mode' = "Normal"
    /\ started' = None
    /\ UNCHANGED <<scroll_position, clipboard>>
    /\ UNCHANGED <<active_sheet, wbLast, shVars, selVars, fnVars>>

\* editor.cancel_editing()
CancelEditing ==
    /\ editing_cell' = None
    /\ edit_buffer' = <<>>
    /\ mode' = "Normal"
    /\ started' = None
    /\ edLast' = EdCall("cancel_editing")
    /\ UNCHANGED <<scroll_position, clipboard, entered>>
    /\ UNCHANGED <<wbVars, shVars, selVars, fnVars>>

\* The arguments of move_selection, and the arrow-key steps given to
\* move_cursor.
Deltas == {0 - 1, 0, 1, I32_MAX}
Steps == {0 - 1, 0, 1}

EdMove(op, from, dx, dy, panic) ==
    [op |-> op, cell |-> Some(from), text |-> <<>>, prior |-> None,
     dx |-> dx, dy |-> dy, panic |-> panic]

\* editor.move_cursor(dx, dy): view.move_selection(dx, dy).  The cursor is
\* kept on the cells of the model.
MoveCursor(dx, dy) ==
    /\ \E overflow_checks \in BOOLEAN :
          LET m == GridView_move_selection(primary, dx, dy, overflow_checks) IN
          /\ edLast' = EdCall("move_cursor")
          /\ IF m.panic
             THEN UNCHANGED <<primary, ranges, scroll_position>>
             ELSE /\ m.new_cell \in EdCells
                  /\ primary' = Selection_set(Sel, m.new_cell).primary
                  /\ ranges' = Selection_set(Sel, m.new_cell).ranges
                  /\ scroll_position' =
                         GridView_scroll_to_cell(scroll_position, m.new_cell)
    /\ UNCHANGED <<editing_cell, edit_buffer, mode, clipboard, entered, started>>
    /\ UNCHANGED <<wbVars, shVars, selLast, fnVars>>

\* editor.delete_cell()
DeleteCell ==
    /\ sheets' = GridEditor_delete_cell(sheets, active_sheet, primary)
    /\ entered' = [entered EXCEPT ![primary] = None]
    /\ edLast' = EdCall("delete_cell")
    /\ UNCHANGED <<scroll_position, editing_cell, edit_buffer, mode, clipboard, started>>
    /\ UNCHANGED <<active_sheet, wbLast, shVars, selVars, fnVars>>

\* editor.copy()
Copy ==
    /\ clipboard' = GridEditor_copy(sheets, active_sheet, primary, clipboard)
    /\ edLast' = EdCall("copy")
    /\ UNCHANGED <<scroll_position, editing_cell, edit_buffer, mode, entered, started>>
    /\ UNCHANGED <<wbVars, shVars, selVars, fnVars>>

\* editor.cut(): copy(), then delete_cell()
Cut ==
    /\ clipboard' = GridEditor_copy(sheets, active_sheet, primary, clipboard)
    /\ sheets' = GridEditor_delete_cell(sheets, active_sheet, primary)
    /\ entered' = [entered EXCEPT ![primary] = None]
    /\ edLast' = EdLast("cut", Some(primary), <<>>,
                     GridEditor_get_cell_value(sheets, active_sheet, primary))
    /\ UNCHANGED <<scroll_position, editing_cell, edit_buffer, mode, started>>
    /\ UNCHANGED <<active_sheet, wbLast, shVars, selVars, fnVars>>

\* editor.paste()
Paste ==
    /\ sheets' = GridEditor_paste(sheets, active_sheet, primary, clipboard)
    /\ entered' = IF clipboard.some THEN [entered EXCEPT ![primary] = None]
                  ELSE entered
    /\ edLast' = [op |-> "paste", cell |-> Some(primary), text |-> <<>>,
                  prior |-> None, clip |-> clipboard]
    /\ UNCHANGED <<scroll_position, editing_cell, edit_buffer, mode, clipboard,
                   started>>
    /\ UNCHANGED <<active_sheet, wbLast, shVars, selVars, fnVars>>

EdNext ==
    \/ \E cell \in EdCells : GotoCell(cell)
    \/ StartEditing
    \/ \E text \in EditTexts : UpdateEditText(text)
    \/ FinishEditing
    \/ CancelEditing

\* The texts typed where all calls of the editor are in play: a number
\* and a word.
TypedTexts == {<<"4", "2">>, <<"h", "i">>}

EdAllNext ==
    \/ \E cell \in EdCells : GotoCell(cell)
    \/ \E dx, dy \in Steps : MoveCursor(dx, dy)
    \/ StartEditing
    \/ \E text \in TypedTexts : UpdateEditText(text)
    \/ FinishEditing
    \/ CancelEditing
    \/ DeleteCell
    \/ Copy
    \/ Cut
    \/ Paste

\* The view on its own: GridView::new() under start_edit, finish_edit,
\* cancel_edit, move_selection, scroll_to_cell, assignments to the public
\* edit_buffer and extend_to on the public selection.
ViewCells == {CellRef_new(r, c) : r \in 0..MaxMove, c \in 0..MaxMove}
ViewTexts == {<<>>, <<"4", "2">>}

\* The cells scroll_to_cell is called with: the cells of the model and a
\* cell beyond the visible rows and columns.
ScrollCells ==
    ViewCells \cup {CellRef_new(visible_rows + 5, visible_cols + 5)}

\* view.scroll_to_cell(cell)
ViewScrollToCell(cell) ==
    /\ scroll_position' = GridView_scroll_to_cell(scroll_position, cell)
    /\ edLast' = EdCall("scroll_to_cell")
    /\ UNCHANGED <<editing_cell, edit_buffer, mode, clipboard, entered, started>>
    /\ UNCHANGED <<wbVars, shVars, selVars, fnVars>>

\* view.start_edit(cell, initial_value)
ViewStartEdit(cell, initial_value) ==
    /\ editing_cell' = Some(cell)
    /\ edit_buffer' = initial_value
    /\ scroll_position' = GridView_scroll_to_cell(scroll_position, cell)
    /\ edLast' = EdLast("start_edit", Some(cell), initial_value, None)
    /\ UNCHANGED <<mode, clipboard, entered, started>>
    /\ UNCHANGED <<wbVars, shVars, selVars, fnVars>>

\* view.finish_edit(); the history keeps the cell and the buffer of the
\* moment of the call, what the call returned and whether the call before
\* it was a finish_edit or a cancel_edit.
ViewFinishEdit ==
    /\ LET r == GridView_finish_edit(editing_cell, edit_buffer) IN
        /\ editing_cell' = r.editing_cell
        /\ edit_buffer' = r.edit_buffer
        /\ edLast' = [op |-> "finish_edit", cell |-> editing_cell,
                      text |-> edit_buffer, prior |-> None,
                      ret |-> r.ret,
                      after_close |-> edLast.op \in {"finish_edit", "cancel_edit"}]
    /\ UNCHANGED <<scroll_position, mode, clipboard, entered, started>>
    /\ UNCHANGED <<wbVars, shVars, selVars, fnVars>>

\* view.cancel_edit()
ViewCancelEdit ==
    /\ editing_cell' = None
    /\ edit_buffer' = <<>>
    /\ edLast' = EdCall("cancel_edit")
    /\ UNCHANGED <<scroll_position, mode, clipboard, entered, started>>
    /\ UNCHANGED <<wbVars, shVars, selVars, fnVars>>

\* view.edit_buffer = text, as GridEditor::update_edit_text does
ViewSetEditBuffer(text) ==
    /\ edit_buffer' = text
    /\ edLast' = EdCall("edit_buffer")
    /\ UNCHANGED <<scroll_position, editing_cell, mode, clipboard, entered, started>>
    /\ UNCHANGED <<wbVars, shVars, selVars, fnVars>>

\* view.selection.extend_to(end)
ViewExtendTo(end) ==
    /\ primary' = Selection_extend_to(Sel, end).primary
    /\ ranges' = Selection_extend_to(Sel, end).ranges
    /\ edLast' = EdCall("extend_to")
    /\ UNCHANGED <<scroll_position, editing_cell, edit_buffer, mode, clipboard,
                   entered, started>>
    /\ UNCHANGED <<wbVars, shVars, selLast, fnVars>>

\* view.move_selection(dx, dy).  The selection is kept on the cells of the
\* model.
ViewMoveSelection(dx, dy) ==
    /\ \E overflow_checks \in BOOLEAN :
          LET m == GridView_move_selection(primary, dx, dy, overflow_checks) IN
          /\ edLast' = EdMove("move_selection", primary, dx, dy, m.panic)
          /\ IF m.panic
             THEN UNCHANGED <<primary, ranges, scroll_position>>
             ELSE /\ m.new_cell \in ViewCells
                  /\ primary' = Selection_set(Sel, m.new_cell).primary
                  /\ ranges' = Selection_set(Sel, m.new_cell).ranges
                  /\ scroll_position' =
                         GridView_scroll_to_cell(scroll_position, m.new_cell)
    /\ UNCHANGED <<editing_cell, edit_buffer, mode, clipboard, entered, started>>
    /\ UNCHANGED <<wbVars, shVars, selLast, fnVars>>

ViewNext ==
    \/ \E cell \in ViewCells, text \in ViewTexts : ViewStartEdit(cell, text)
    \/ ViewFinishEdit
    \/ ViewCancelEdit
    \/ \E text \in ViewTexts : ViewSetEditBuffer(text)
    \/ \E end \in ViewCells : ViewExtendTo(end)
    \/ \E dx, dy \in Deltas : ViewMoveSelection(dx, dy)
    \/ \E cell \in ScrollCells : ViewScrollToCell(cell)

----------------------------------------------------------------------------
(* evaluator.rs: Evaluator, and CellValue::as_number of cell.rs.  An f64   *)
(* of the evaluator is a record: a finite value is the fraction num/den in  *)
(* lowest terms (whole numbers and their quotients are all the finite       *)
(* values the model computes, and distinct fractions of this size are       *)
(* distinct f64 values), the infinities and NaN are values of their own.    *)
(* (The editor only stores and prints whole numbers and keeps them as       *)
(* integers.)                                                               *)

\* CellValue::Boolean and CellValue::Date
Boolean(b) == [tag |-> "Boolean", b |-> b]
Date(d) == [tag |-> "Date", d |-> d]

\* The f64 that is the quotient n / d, d > 0, in lowest terms
f64_ratio(n, d) ==
    LET RECURSIVE gcd(_, _)
        gcd(a, b) == IF b = 0 THEN a ELSE gcd(b, a % b)
        g == gcd(IF n < 0 THEN 0 - n ELSE n, d)
    IN  [cls |-> "finite", num |-> n \div g, den |-> d \div g]

\* The f64 that is the whole number n
F64(n) == f64_ratio(n, 1)

\* f64::INFINITY, f64::NEG_INFINITY, f64::NAN
INFINITY == [cls |-> "inf", num |-> 0, den |-> 1]
NEG_INFINITY == [cls |-> "-inf", num |-> 0, den |-> 1]
NAN == [cls |-> "nan", num |-> 0, den |-> 1]

\* f64::is_infinite
f64_is_infinite(a) == a.cls \in {"inf", "-inf"}

\* a + b on f64
f64_add(a, b) ==
    IF a.cls = "nan" \/ b.cls = "nan" THEN NAN
    ELSE IF a.cls = "finite" /\ b.cls = "finite"
         THEN f64_ratio(a.num * b.den + b.num * a.den, a.den * b.den)
    ELSE IF a.cls = "finite" THEN b
    ELSE IF b.cls = "finite" \/ a.cls = b.cls THEN a
    ELSE NAN

\* a / (k as f64) for a count k > 0
f64_div(a, k) ==
    IF a.cls = "finite" THEN f64_ratio(a.num, a.den * k) ELSE a

\* a < b on f64 (false when either is NaN)
f64_lt(a, b) ==
    IF a.cls = "nan" \/ b.cls = "nan" THEN FALSE
    ELSE IF a.cls = "-inf" THEN b.cls # "-inf"
    ELSE IF a.cls = "inf" THEN FALSE
    ELSE IF b.cls = "-inf" THEN FALSE
    ELSE IF b.cls = "inf" THEN TRUE
    ELSE a.num * b.den < b.num * a.den

\* f64::max and f64::min: a NaN operand is ignored
f64_max(a, b) ==
    IF a.cls = "nan" THEN b ELSE IF b.cls = "nan" THEN a
    ELSE IF f64_lt(a, b) THEN b ELSE a
f64_min(a, b) ==
    IF a.cls = "nan" THEN b ELSE IF b.cls = "nan" THEN a
    ELSE IF f64_lt(b, a) THEN b ELSE a

\* str::parse::<f64>().ok() with the special values: after an optional sign,
\* "inf" and "infinity" in any case are the infinity of that sign and "nan"
\* in any case is NaN; every other text is read as f64_from_str reads it.
str_parse_f64(s) ==
    LET signed == s # <<>> /\ Head(s) \in {"+", "-"}
        body   == to_uppercase(IF signed THEN Tail(s) ELSE s)
        v      == f64_from_str(s)
        inf    == {<<"I", "N", "F">>, <<"I", "N", "F", "I", "N", "I", "T", "Y">>}
        nan    == <<"N", "A", "N">>
    IN  IF body \in inf
        THEN Some(IF Head(s) = "-" THEN NEG_INFINITY ELSE INFINITY)
        ELSE IF body = nan THEN Some(NAN)
        ELSE IF v.some THEN Some(F64(v.val))
        ELSE None

\* A plausible slip in as_number: only Number is a number.
CellValue_as_number_strict(v) ==
    IF v.tag = "Number" THEN Some(v.n) ELSE None

\* CellValue::as_number
CellValue_as_number(v) ==
    IF v.tag = "Number" THEN Some(v.n)
    ELSE IF v.tag = "Boolean" THEN Some(IF v.b THEN F64(1) ELSE F64(0))
    ELSE IF v.tag = "Text" THEN str_parse_f64(v.s)
    ELSE None

\* values.iter().filter_map(|v| v.as_number()).collect()
RECURSIVE filter_map_as_number(_)
filter_map_as_number(values) ==
    IF values = <<>> THEN <<>>
    ELSE LET n == CellValue_as_number(Head(values)) IN
         (IF n.some THEN <<n.val>> ELSE <<>>)
             \o filter_map_as_number(Tail(values))

\* Iterator::sum::<f64>() and Iterator::fold with f64::max, f64::min
RECURSIVE iter_sum(_, _)
iter_sum(numbers, acc) ==
    IF numbers = <<>> THEN acc
    ELSE iter_sum(Tail(numbers), f64_add(acc, Head(numbers)))
RECURSIVE fold_max(_, _)
fold_max(numbers, acc) ==
    IF numbers = <<>> THEN acc
    ELSE fold_max(Tail(numbers), f64_max(acc, Head(numbers)))
RECURSIVE fold_min(_, _)
fold_min(numbers, acc) ==
    IF numbers = <<>> THEN acc
    ELSE fold_min(Tail(numbers), f64_min(acc, Head(numbers)))

\* Evaluator::sum
Evaluator_sum(values) ==
    Number(iter_sum(filter_map_as_number(values), F64(0)))

\* A plausible slip in average: the sum is divided by values.len().
Evaluator_average_all(values) ==
    LET numbers == filter_map_as_number(values) IN
    IF numbers = <<>> THEN Number(F64(0))
    ELSE Number(f64_div(iter_sum(numbers, F64(0)), Len(values)))

\* Evaluator::average
Evaluator_average(values) ==
    LET numbers == filter_map_as_number(values) IN
    IF numbers = <<>> THEN Number(F64(0))
    ELSE Number(f64_div(iter_sum(numbers, F64(0)), Len(numbers)))

\* Evaluator::max
Evaluator_max(values) ==
    LET max == fold_max(filter_map_as_number(values), NEG_INFINITY) IN
    IF f64_is_infinite(max) THEN Error("No numeric values") ELSE Number(max)

\* Evaluator::min
Evaluator_min(values) ==
    LET min == fold_min(filter_map_as_number(values), INFINITY) IN
    IF f64_is_infinite(min) THEN Error("No numeric values") ELSE Number(min)

\* The values the aggregates are called with: every sequence of up to
\* MaxValues of these cell values.
ValueInputs ==
    {Number(F64(1)), Number(F64(2)), Number(F64(0 - 3)), Boolean(TRUE),
     Text(<<"5">>), Text(<<"x">>), Text(<<"i", "n", "f">>),
     Empty, Error("#REF!"), Date(7)}
ValueLists == UNION {[1..k -> ValueInputs] : k \in 0..MaxValues}

\* Evaluator::sum(values)
AggregateSum ==
    /\ fnCall = "input"
    /\ fnCall' = "sum"
    /\ fnRes' = Evaluator_sum(fnArg)
    /\ UNCHANGED <<fnArg, wbVars, shVars, selVars, edVars>>

\* Evaluator::average(values)
AggregateAverage ==
    /\ fnCall = "input"
    /\ fnCall' = "average"
    /\ fnRes' = Evaluator_average(fnArg)
    /\ UNCHANGED <<fnArg, wbVars, shVars, selVars, edVars>>

\* Evaluator::max(values)
AggregateMax ==
    /\ fnCall = "input"
    /\ fnCall' = "max"
    /\ fnRes' = Evaluator_max(fnArg)
    /\ UNCHANGED <<fnArg, wbVars, shVars, selVars, edVars>>

\* Evaluator::min(values)
AggregateMin ==
    /\ fnCall = "input"
    /\ fnCall' = "min"
    /\ fnRes' = Evaluator_min(fnArg)
    /\ UNCHANGED <<fnArg, wbVars, shVars, selVars, edVars>>

AggregateNext ==
    \/ AggregateSum
    \/ AggregateAverage
    \/ AggregateMax
    \/ AggregateMin

----------------------------------------------------------------------------
(* Specifications: one per subsystem, the others idle at their initial     *)
(* values.                                                                 *)

\* The workbook under add_sheet, remove_sheet, rename_sheet, assignments to
\* active_sheet and writes to the active sheet.
InitWorkbook ==
    /\ sheets = Spreadsheet_new.sheets
    /\ active_sheet = Spreadsheet_new.active_sheet
    /\ wbLast = WbLast0
    /\ cells = Sheet_default.cells
    /\ shLast = ShLast0
    /\ primary = Selection_default.primary
    /\ ranges = Selection_default.ranges
    /\ selLast = SelLast0("default", NoCell, NoRange)
    /\ fnArg = None
    /\ fnCall = "idle"
    /\ fnRes = None
    /\ scroll_position = GridView_new.scroll_position
    /\ editing_cell = GridView_new.editing_cell
    /\ edit_buffer = GridView_new.edit_buffer
    /\ mode = "Normal"
    /\ clipboard = None
    /\ entered = [c \in EdCells |-> None]
    /\ started = None
    /\ edLast = EdCall("new")

SpecWorkbook == InitWorkbook /\ [][WbNext]_vars

\* One sheet, created by Sheet::new, under set, clear and edits through
\* get_mut.
InitSheet ==
    /\ sheets = Spreadsheet_new.sheets
    /\ active_sheet = Spreadsheet_new.active_sheet
    /\ wbLast = WbLast0
    /\ cells = Sheet_default.cells
    /\ shLast = ShLast0
    /\ primary = Selection_default.primary
    /\ ranges = Selection_default.ranges
    /\ selLast = SelLast0("default", NoCell, NoRange)
    /\ fnArg = None
    /\ fnCall = "idle"
    /\ fnRes = None
    /\ scroll_position = GridView_new.scroll_position
    /\ editing_cell = GridView_new.editing_cell
    /\ edit_buffer = GridView_new.edit_buffer
    /\ mode = "Normal"
    /\ clipboard = None
    /\ entered = [c \in EdCells |-> None]
    /\ started = None
    /\ edLast = EdCall("new")

SpecSheet == InitSheet /\ [][SheetNext]_vars

\* One selection under extend_to, add_range and set.
InitSelection ==
    /\ sheets = Spreadsheet_new.sheets
    /\ active_sheet = Spreadsheet_new.active_sheet
    /\ wbLast = WbLast0
    /\ cells = Sheet_default.cells
    /\ shLast = ShLast0
    /\ \E i \in SelInitial :
          /\ primary = i.sel.primary
          /\ ranges = i.sel.ranges
          /\ selLast = i.last
    /\ fnArg = None
    /\ fnCall = "idle"
    /\ fnRes = None
    /\ scroll_position = GridView_new.scroll_position
    /\ editing_cell = GridView_new.editing_cell
    /\ edit_buffer = GridView_new.edit_buffer
    /\ mode = "Normal"
    /\ clipboard = None
    /\ entered = [c \in EdCells |-> None]
    /\ started = None
    /\ edLast = EdCall("new")

SpecSelection == InitSelection /\ [][SelNext]_vars

\* The A1 codec on texts and references.
InitA1 ==
    /\ sheets = Spreadsheet_new.sheets
    /\ active_sheet = Spreadsheet_new.active_sheet
    /\ wbLast = WbLast0
    /\ cells = Sheet_default.cells
    /\ shLast = ShLast0
    /\ primary = Selection_default.primary
    /\ ranges = Selection_default.ranges
    /\ selLast = SelLast0("default", NoCell, NoRange)
    /\ fnArg \in A1Inputs
    /\ fnCall = "input"
    /\ fnRes = None
    /\ scroll_position = GridView_new.scroll_position
    /\ editing_cell = GridView_new.editing_cell
    /\ edit_buffer = GridView_new.edit_buffer
    /\ mode = "Normal"
    /\ clipboard = None
    /\ entered = [c \in EdCells |-> None]
    /\ started = None
    /\ edLast = EdCall("new")

SpecA1 == InitA1 /\ [][A1Next]_vars

\* CellRange::new on pairs of corners, the range-string codec on texts and
\* ranges.
InitCellRange ==
    /\ sheets = Spreadsheet_new.sheets
    /\ active_sheet = Spreadsheet_new.active_sheet
    /\ wbLast = WbLast0
    /\ cells = Sheet_default.cells
    /\ shLast = ShLast0
    /\ primary = Selection_default.primary
    /\ ranges = Selection_default.ranges
    /\ selLast = SelLast0("default", NoCell, NoRange)
    /\ fnArg \in RangeCalls
    /\ fnCall = "input"
    /\ fnRes = None
    /\ scroll_position = GridView_new.scroll_position
    /\ editing_cell = GridView_new.editing_cell
    /\ edit_buffer = GridView_new.edit_buffer
    /\ mode = "Normal"
    /\ clipboard = None
    /\ entered = [c \in EdCells |-> None]
    /\ started = None
    /\ edLast = EdCall("new")

SpecCellRange == InitCellRange /\ [][RangeNext]_vars

\* Formula::parse on texts, Formula::evaluate on what it returns.
InitFormula ==
    /\ sheets = Spreadsheet_new.sheets
    /\ active_sheet = Spreadsheet_new.active_sheet
    /\ wbLast = WbLast0
    /\ cells = Sheet_default.cells
    /\ shLast = ShLast0
    /\ primary = Selection_default.primary
    /\ ranges = Selection_default.ranges
    /\ selLast = SelLast0("default", NoCell, NoRange)
    /\ fnArg \in FormulaTexts
    /\ fnCall = "input"
    /\ fnRes = None
    /\ scroll_position = GridView_new.scroll_position
    /\ editing_cell = GridView_new.editing_cell
    /\ edit_buffer = GridView_new.edit_buffer
    /\ mode = "Normal"
    /\ clipboard = None
    /\ entered = [c \in EdCells |-> None]
    /\ started = None
    /\ edLast = EdCall("new")

SpecFormula == InitFormula /\ [][FormulaNext]_vars

\* Function::from_name on names, then on the name of what it returned.
InitFunction ==
    /\ sheets = Spreadsheet_new.sheets
    /\ active_sheet = Spreadsheet_new.active_sheet
    /\ wbLast = WbLast0
    /\ cells = Sheet_default.cells
    /\ shLast = ShLast0
    /\ primary = Selection_default.primary
    /\ ranges = Selection_default.ranges
    /\ selLast = SelLast0("default", NoCell, NoRange)
    /\ fnArg \in NameInputs
    /\ fnCall = "input"
    /\ fnRes = None
    /\ scroll_position = GridView_new.scroll_position
    /\ editing_cell = GridView_new.editing_cell
    /\ edit_buffer = GridView_new.edit_buffer
    /\ mode = "Normal"
    /\ clipboard = None
    /\ entered = [c \in EdCells |-> None]
    /\ started = None
    /\ edLast = EdCall("new")

SpecFunction == InitFunction /\ [][FunctionNext]_vars

\* Evaluator::sum, average, max and min on lists of cell values.
InitAggregate ==
    /\ sheets = Spreadsheet_new.sheets
    /\ active_sheet = Spreadsheet_new.active_sheet
    /\ wbLast = WbLast0
    /\ cells = Sheet_default.cells
    /\ shLast = ShLast0
    /\ primary = Selection_default.primary
    /\ ranges = Selection_default.ranges
    /\ selLast = SelLast0("default", NoCell, NoRange)
    /\ fnArg \in ValueLists
    /\ fnCall = "input"
    /\ fnRes = None
    /\ scroll_position = GridView_new.scroll_position
    /\ editing_cell = GridView_new.editing_cell
    /\ edit_buffer = GridView_new.edit_buffer
    /\ mode = "Normal"
    /\ clipboard = None
    /\ entered = [c \in EdCells |-> None]
    /\ started = None
    /\ edLast = EdCall("new")

SpecAggregate == InitAggregate /\ [][AggregateNext]_vars

\* The editor from GridEditor::new() under goto_cell, start_editing,
\* update_edit_text, finish_editing and cancel_editing.
InitEditor ==
    /\ sheets = Spreadsheet_new.sheets
    /\ active_sheet = Spreadsheet_new.active_sheet
    /\ wbLast = WbLast0
    /\ cells = Sheet_default.cells
    /\ shLast = ShLast0
    /\ primary = GridView_new.selection.primary
    /\ ranges = GridView_new.selection.ranges
    /\ selLast = SelLast0("default", NoCell, NoRange)
    /\ fnArg = None
    /\ fnCall = "idle"
    /\ fnRes = None
    /\ scroll_position = GridView_new.scroll_position
    /\ editing_cell = GridView_new.editing_cell
    /\ edit_buffer = GridView_new.edit_buffer
    /\ mode = "Normal"
    /\ clipboard = None
    /\ entered = [c \in EdCells |-> None]
    /\ started = None
    /\ edLast = EdCall("new")

SpecEditor == InitEditor /\ [][EdNext]_vars

\* The editor from GridEditor::new() under all its calls: goto_cell,
\* move_cursor, start_editing, update_edit_text, finish_editing,
\* cancel_editing, delete_cell, copy, cut and paste.
InitEditorAll ==
    /\ sheets = Spreadsheet_new.sheets
    /\ active_sheet = Spreadsheet_new.active_sheet
    /\ wbLast = WbLast0
    /\ cells = Sheet_default.cells
    /\ shLast = ShLast0
    /\ primary = GridView_new.selection.primary
    /\ ranges = GridView_new.selection.ranges
    /\ selLast = SelLast0("default", NoCell, NoRange)
    /\ fnArg = None
    /\ fnCall = "idle"
    /\ fnRes = None
    /\ scroll_position = GridView_new.scroll_position
    /\ editing_cell = GridView_new.editing_cell
    /\ edit_buffer = GridView_new.edit_buffer
    /\ mode = "Normal"
    /\ clipboard = None
    /\ entered = [c \in EdCells |-> None]
    /\ started = None
    /\ edLast = EdCall("new")

SpecEditorAll == InitEditorAll /\ [][EdAllNext]_vars

\* The view from GridView::new() under its own calls.
InitView ==
    /\ sheets = Spreadsheet_new.sheets
    /\ active_sheet = Spreadsheet_new.active_sheet
    /\ wbLast = WbLast0
    /\ cells = Sheet_default.cells
    /\ shLast = ShLast0
    /\ primary = GridView_new.selection.primary
    /\ ranges = GridView_new.selection.ranges
    /\ selLast = SelLast0("default", NoCell, NoRange)
    /\ fnArg = None
    /\ fnCall = "idle"
    /\ fnRes = None
    /\ scroll_position = GridView_new.scroll_position
    /\ editing_cell = GridView_new.editing_cell
    /\ edit_buffer = GridView_new.edit_buffer
    /\ mode = "Normal"
    /\ clipboard = None
    /\ entered = [c \in EdCells |-> None]
    /\ started = None
    /\ edLast = EdCall("new")

SpecView == InitView /\ [][ViewNext]_vars

----------------------------------------------------------------------------
(* Claims about the workbook (SpecWorkbook)                                *)

\* C1: in every state reachable from Spreadsheet::new() by add_sheet,
\* remove_sheet and rename_sheet with arbitrary indices, sheet_count() >= 1;
\* and a remove_sheet called on a workbook of exactly one sheet has returned
\* None and left the one sheet in place.
C1_SheetCountAtLeastOne ==
    /\ sheet_count >= 1
    /\ (wbLast.op = "remove_sheet" /\ wbLast.preLen = 1)
          => (wbLast.ret = None /\ sheet_count = 1)

\* remove_sheet(0), a valid index, was called on a one-sheet workbook.
C1_Witness ==
    /\ wbLast.op = "remove_sheet"
    /\ wbLast.preLen = 1
    /\ wbLast.index = 0

\* C2: active_sheet < sheet_count() in every reachable state (active() and
\* active_mut() index inside the vector); and when a removal leaves the old
\* active_sheet at or past the new length, active_sheet is the new last
\* index.
C2_ActiveSheetValid ==
    /\ active_sheet < sheet_count
    /\ (/\ wbLast.op = "remove_sheet"
        /\ wbLast.ret.some
        /\ wbLast.preActive >= sheet_count)
          => active_sheet = sheet_count - 1

\* A removal has just left the old active index past the new end.
C2_Witness ==
    /\ wbLast.op = "remove_sheet"
    /\ wbLast.ret.some
    /\ wbLast.preActive >= sheet_count
    /\ sheet_count >= 2

\* C3: a remove_sheet(index) step on a one-sheet workbook or with
\* index >= sheet_count() returns None and changes neither the sheets nor
\* active_sheet; any other remove_sheet step returns the sheet that was at
\* index, shortens the vector by one, and keeps the other sheets (names and
\* contents) in their order.
C3_RemoveSheetContract ==
    [][wbLast'.op = "remove_sheet" =>
         LET i == wbLast'.index
             n == Len(sheets)
         IN  IF n = 1 \/ i >= n
             THEN /\ wbLast'.ret = None
                  /\ sheets' = sheets
                  /\ active_sheet' = active_sheet
             ELSE /\ wbLast'.ret = Some(sheets[i + 1])
                  /\ Len(sheets') = n - 1
                  /\ \A j \in 1..i : sheets'[j] = sheets[j]
                  /\ \A j \in (i + 1)..(n - 1) : sheets'[j] = sheets[j + 1]
      ]_vars

\* A sheet was removed from the front of a three-sheet workbook whose
\* remaining two sheets differ.
C3_Witness ==
    /\ wbLast.op = "remove_sheet"
    /\ wbLast.ret.some
    /\ wbLast.index = 0
    /\ wbLast.preLen = 3
    /\ sheets[1] # sheets[2]

----------------------------------------------------------------------------
(* Claims about one sheet (SpecSheet)                                      *)

\* A cell that Sheet::set would drop: value Empty and formula None.
IsEmptyCell(c) == c.value = Empty /\ c.formula = None

\* C4: in every sheet state reachable by set, clear and in-place edits
\* through get_mut, no stored cell has value Empty together with formula
\* None.
C4_NoEmptyCellStored ==
    \A k \in Keys(cells) : ~IsEmptyCell(cells[k])

\* C5: after set(ref, cell) with cell.value Empty and cell.formula None,
\* get(ref) is None, whatever was stored at ref and whatever the cell's
\* style; after set(ref, cell) with a non-Empty value or a Some formula (an
\* Empty value with a formula too), get(ref) is exactly that cell.
C5_SetThenGet ==
    shLast.op = "set" =>
        Sheet_get(cells, shLast.ref) =
            (IF IsEmptyCell(shLast.cell) THEN None ELSE Some(shLast.cell))

\* set was called with an empty cell that carries a style on a reference
\* that held a cell, while another cell is stored.
C5_Witness ==
    /\ shLast.op = "set"
    /\ shLast.had
    /\ shLast.cell = Cell_new(Empty, None, CellStyle_bold)
    /\ IndexMap_len(cells) >= 1

\* C6: a clear(ref) step ends with get(ref) = None, whatever was stored (a
\* value, a formula or nothing); and a clear(ref) or set(ref, _) step leaves
\* the cell stored at every other reference as it was.
C6_ClearAndFrame ==
    [][/\ shLast'.op = "clear" => Sheet_get(cells', shLast'.ref) = None
       /\ shLast'.op \in {"set", "clear"} =>
             \A r \in Refs \ {shLast'.ref} :
                 Sheet_get(cells', r) = Sheet_get(cells, r)
      ]_vars

\* clear removed a stored cell while another cell stays stored.
C6_Witness ==
    /\ shLast.op = "clear"
    /\ shLast.had
    /\ IndexMap_len(cells) >= 1

\* C7: used_range() is None exactly when no cell is stored; otherwise it is
\* (min, max) with min.row, min.col the least and max.row, max.col the
\* greatest row and column among the stored keys: each bound is attained by
\* a stored key and every stored key lies inside the box.
C7_UsedRangeIsBoundingBox ==
    LET ur == Sheet_used_range(cells)
        K  == Keys(cells)
    IN  IF K = {} THEN ur = None
        ELSE /\ ur.some
             /\ \E k \in K : k.row = ur.val[1].row
             /\ \E k \in K : k.col = ur.val[1].col
             /\ \E k \in K : k.row = ur.val[2].row
             /\ \E k \in K : k.col = ur.val[2].col
             /\ \A k \in K : /\ ur.val[1].row <= k.row /\ k.row <= ur.val[2].row
                              /\ ur.val[1].col <= k.col /\ k.col <= ur.val[2].col

\* Two cells are stored, neither in row 0, in different columns: the box is
\* not a single cell and its minimum row is not 0.
C7_Witness ==
    /\ IndexMap_len(cells) = 2
    /\ \A k \in Keys(cells) : k.row = 1
    /\ Sheet_used_range(cells) = Some(<<CellRef_new(1, 0), CellRef_new(1, 1)>>)

----------------------------------------------------------------------------
(* Claims about the selection (SpecSelection)                              *)

\* C8: in every selection state reachable from new, from_range or default by
\* extend_to, add_range and set, the range list is non-empty, so that
\* range(), which reads ranges[0], stays in bounds.
C8_RangesNonEmpty == Len(ranges) >= 1

\* set was called on a selection that add_range had grown.
C8_Witness ==
    /\ selLast.op = "set"
    /\ selLast.prev = "add_range"
    /\ Len(ranges) = 1

Abs(x) == IF x < 0 THEN -x ELSE x

\* C9: an extend_to(end) step replaces the range list by the one range
\* CellRange::new(primary, end) and leaves primary as it was, whatever ranges
\* were there (also those of an earlier extend_to); the selected cells are
\* exactly the rectangle spanned by primary and end, (|drow|+1)*(|dcol|+1)
\* of them.
C9_ExtendToReplaces ==
    [][selLast'.op = "extend_to" =>
         LET end  == selLast'.cell
             post == [primary |-> primary', ranges |-> ranges']
         IN  /\ ranges' = <<CellRange_new(primary, end)>>
             /\ primary' = primary
             /\ Selection_cells(post) =
                    {c \in SelCells :
                        /\ Min(primary.row, end.row) <= c.row
                        /\ c.row <= Max(primary.row, end.row)
                        /\ Min(primary.col, end.col) <= c.col
                        /\ c.col <= Max(primary.col, end.col)}
             /\ Selection_cell_count(post) =
                    (Abs(end.row - primary.row) + 1)
                        * (Abs(end.col - primary.col) + 1)
      ]_vars

\* extend_to((2,2)) was called after another extend_to, from primary (0,0):
\* one range, nine cells, (1,1) among them.
C9_Witness ==
    /\ selLast.op = "extend_to"
    /\ selLast.prev = "extend_to"
    /\ primary = CellRef_new(0, 0)
    /\ selLast.cell = CellRef_new(2, 2)
    /\ Len(ranges) = 1
    /\ Selection_cell_count(Sel) = 9
    /\ Selection_is_selected(Sel, CellRef_new(1, 1))

\* C10: an add_range(range) step appends range as the last element of the
\* range list, keeps the earlier ranges in their order (so every cell
\* selected before stays selected), and sets primary to range.end.
C10_AddRangeAppends ==
    [][selLast'.op = "add_range" =>
         LET range == selLast'.range
             post  == [primary |-> primary', ranges |-> ranges']
         IN  /\ Len(ranges') = Len(ranges) + 1
             /\ ranges'[Len(ranges')] = range
             /\ \A i \in 1..Len(ranges) : ranges'[i] = ranges[i]
             /\ primary' = range.end
             /\ \A c \in SelCells :
                   Selection_is_selected(Sel, c) => Selection_is_selected(post, c)
      ]_vars

\* add_range made the list three ranges long, the first two different, and
\* the new range is not a single cell.
C10_Witness ==
    /\ selLast.op = "add_range"
    /\ Len(ranges) = 3
    /\ ranges[1] # ranges[2]
    /\ ranges[3] = selLast.range
    /\ selLast.range.start # selLast.range.end

\* C11: after set(cell), from any selection state, the range list is exactly
\* [CellRange::new(cell, cell)] and primary is cell: the selection equals
\* Selection::new(cell), no earlier range survives, and the one selected
\* cell is cell.
C11_SetResets ==
    selLast.op = "set" =>
        /\ ranges = <<CellRange_new(selLast.cell, selLast.cell)>>
        /\ primary = selLast.cell
        /\ Sel = Selection_new(selLast.cell)
        /\ Selection_cells(Sel) = {selLast.cell}
        /\ Selection_cell_count(Sel) = 1

\* set((2,1)) was called on a selection that add_range had just grown to
\* two ranges or more.
C11_Witness ==
    /\ selLast.op = "set"
    /\ selLast.prev = "add_range"
    /\ selLast.cell = CellRef_new(2, 1)
    /\ Selection_cells(Sel) = {CellRef_new(2, 1)}

\* The cells is_selected is asked about: the grid of the selection calls
\* and one row and column beyond it.
ProbeCells == {CellRef_new(r, c) : r \in 0..(MaxSel + 1), c \in 0..(MaxSel + 1)}

\* C12: in every reachable selection, for every cell c, is_selected(c)
\* holds iff some range contains c iff c is in cells(); cells() is the
\* union of the ranges' cell sets, a cell under several overlapping ranges
\* is in it once, and cell_count() is the number of cells of that union (at
\* most the sum of the ranges' sizes).
C12_SelectedIffInCells ==
    LET S == Selection_cells(Sel)
        InRange(i) == {c \in ProbeCells : CellRange_contains(ranges[i], c)}
    IN  /\ \A c \in ProbeCells :
              /\ Selection_is_selected(Sel, c) <=> c \in S
              /\ Selection_is_selected(Sel, c) <=>
                     \E i \in 1..Len(ranges) : c \in InRange(i)
        /\ S = UNION {InRange(i) : i \in 1..Len(ranges)}
        /\ Selection_cell_count(Sel) =
               Cardinality({c \in ProbeCells : Selection_is_selected(Sel, c)})
        /\ Selection_cell_count(Sel) <= SumOfSizes(ranges)

\* Two overlapping ranges are selected, (0,0)-(1,1) and (1,1)-(2,2): seven
\* cells, fewer than the eight of the two sizes added up.
C12_Witness ==
    /\ Len(ranges) = 2
    /\ ranges[1] = CellRange_new(CellRef_new(0, 0), CellRef_new(1, 1))
    /\ ranges[2] = CellRange_new(CellRef_new(1, 1), CellRef_new(MaxSel, MaxSel))
    /\ Selection_is_selected(Sel, CellRef_new(1, 1))
    /\ Selection_cell_count(Sel) < SumOfSizes(ranges)

----------------------------------------------------------------------------
(* Claims about CellRange (SpecCellRange)                                  *)

\* C13: for all corners a and b, CellRange::new(a, b) has
\* start = (min of the rows, min of the columns) and
\* end = (max of the rows, max of the columns), so start <= end on both
\* axes; and new(a, b) = new(b, a).
C13_NewNormalizes ==
    fnCall = "new" =>
        LET a == fnArg.a
            b == fnArg.b
            r == fnRes.ab
        IN  /\ r.start.row = Min(a.row, b.row)
            /\ r.start.col = Min(a.col, b.col)
            /\ r.end.row = Max(a.row, b.row)
            /\ r.end.col = Max(a.col, b.col)
            /\ r.start.row <= r.end.row
            /\ r.start.col <= r.end.col
            /\ fnRes.ab = fnRes.ba

\* new was called with corners inverted on the rows only: neither corner is
\* the start or the end of the result.
C13_Witness ==
    /\ fnCall = "new"
    /\ fnArg.a = CellRef_new(2, 0)
    /\ fnArg.b = CellRef_new(0, 1)
    /\ fnRes.ab = CellRange(CellRef_new(0, 0), CellRef_new(2, 1))

----------------------------------------------------------------------------
(* Claims about the A1 codec (SpecA1)                                      *)

\* C14: for every reference r of the grid (columns past "Z" and past "ZZ",
\* rows of one and two digits), CellRef::parse(r.to_a1()) is Some(r); and
\* printing the parsed reference again gives the text to_a1 gave first.
C14_A1RoundTrip ==
    /\ fnCall \in {"to_a1,parse", "to_a1,parse,to_a1"} =>
          fnRes.back = Some(fnArg.ref)
    /\ fnCall = "to_a1,parse,to_a1" => fnRes.again = fnRes.a1

\* The reference (9, 702) was printed as "AAA10", parsed back and printed
\* again.
C14_Witness ==
    /\ fnCall = "to_a1,parse,to_a1"
    /\ fnArg.ref = CellRef_new(9, 702)
    /\ fnRes.a1 = <<"A", "A", "A", "1", "0">>

\* The bijective base-26 reference: A = 1 ... Z = 26 in either case, the
\* letters l1..lk denote the sum of value(li) * 26^(k-i); a digit string
\* denotes its decimal number.
LetterValue(c) ==
    IF IsIn(c, Upper) THEN IndexIn(c, Upper) ELSE IndexIn(c, Lower)

RECURSIVE Pow(_, _)
Pow(b, e) == IF e = 0 THEN 1 ELSE b * Pow(b, e - 1)

RECURSIVE SumTo(_, _)
SumTo(f, n) == IF n = 0 THEN 0 ELSE f[n] + SumTo(f, n - 1)

ColumnNumber(letters) ==
    LET k == Len(letters) IN
    SumTo([i \in 1..k |-> LetterValue(letters[i]) * Pow(26, k - i)], k)

DecimalNumber(digits) ==
    LET k == Len(digits) IN
    SumTo([i \in 1..k |-> (IndexIn(digits[i], Digits) - 1) * Pow(10, k - i)], k)

\* s is one or more letters immediately followed by one or more decimal
\* digits, k of them letters.
LettersThenDigits(s, k) ==
    /\ k >= 1
    /\ k < Len(s)
    /\ \A i \in 1..k : is_ascii_alphabetic(s[i])
    /\ \A i \in (k + 1)..Len(s) : is_ascii_digit(s[i])

\* C15: the A1 codec agrees with the bijective base-26 reference.  For
\* letters l1..lk in either case followed by a decimal row n >= 1, parse
\* returns row n - 1 and column sum(value(li) * 26^(k-i)) - 1; to_a1(row,
\* col) is capital letters of value col + 1 followed by row + 1 in decimal
\* without leading zeros; "A1", "B3", "Z10", "AA1" are (0,0), (2,1), (9,25),
\* (0,26) in both directions.
C15_A1MatchesReference ==
    /\ fnCall = "parse" =>
          \A k \in 1..Len(fnArg.s) :
              LET letters == SubSeq(fnArg.s, 1, k)
                  digits  == SubSeq(fnArg.s, k + 1, Len(fnArg.s))
              IN  (LettersThenDigits(fnArg.s, k) /\ DecimalNumber(digits) >= 1)
                     => fnRes = Some(CellRef_new(DecimalNumber(digits) - 1,
                                                 ColumnNumber(letters) - 1))
    /\ fnCall = "to_a1" =>
          \E k \in 1..Len(fnRes.a1) :
              LET letters == SubSeq(fnRes.a1, 1, k)
                  digits  == SubSeq(fnRes.a1, k + 1, Len(fnRes.a1))
              IN  /\ LettersThenDigits(fnRes.a1, k)
                  /\ \A i \in 1..k : IsIn(letters[i], Upper)
                  /\ ColumnNumber(letters) = fnArg.ref.col + 1
                  /\ digits[1] # "0"
                  /\ DecimalNumber(digits) = fnArg.ref.row + 1
    /\ \A e \in {<<<<"A", "1">>, CellRef_new(0, 0)>>,
                 <<<<"B", "3">>, CellRef_new(2, 1)>>,
                 <<<<"Z", "1", "0">>, CellRef_new(9, 25)>>,
                 <<<<"A", "A", "1">>, CellRef_new(0, 26)>>} :
          /\ (fnCall = "parse" /\ fnArg.s = e[1]) => fnRes = Some(e[2])
          /\ (fnCall = "to_a1" /\ fnArg.ref = e[2]) => fnRes.a1 = e[1]

\* "aZ1", letters of both cases, was parsed to row 0, column 51.
C15_Witness ==
    /\ fnCall = "parse"
    /\ fnArg.s = <<"a", "Z", "1">>
    /\ fnRes = Some(CellRef_new(0, 51))

\* s is one or more letters immediately followed by one or more decimal
\* digits that denote a row >= 1.
IsA1Text(s) ==
    \E k \in 1..Len(s) :
        /\ LettersThenDigits(s, k)
        /\ DecimalNumber(SubSeq(s, k + 1, Len(s))) >= 1

\* C16: CellRef::parse returns None for every text that is not one or more
\* letters immediately followed by one or more decimal digits denoting a
\* row >= 1: no letters, no digits, row zero, a sign, a blank or any other
\* character after the letters or after the digits.
C16_MalformedRejected ==
    (fnCall = "parse" /\ ~IsA1Text(fnArg.s)) => fnRes = None

----------------------------------------------------------------------------
(* Claims about the range-string codec (SpecCellRange)                     *)

\* The part of C17 about printing: to_range_string is start's A1 text, ':'
\* and end's A1 text, parsing it back gives Some(r) for every normalized
\* range r, and "A1:C5" is the range (0,0)-(4,2) in both directions.
RangeStringRoundTrip ==
    LET A1C5 == <<"A", "1", ":", "C", "5">>
        r04  == CellRange(CellRef_new(0, 0), CellRef_new(4, 2))
    IN  /\ fnCall = "to_range_string" =>
              fnRes.text = CellRef_to_a1(fnArg.r.start) \o <<":">>
                               \o CellRef_to_a1(fnArg.r.end)
        /\ fnCall = "to_range_string,parse" => fnRes.back = Some(fnArg.r)
        /\ (fnCall = "parse" /\ fnArg.s = A1C5) => fnRes = Some(r04)
        /\ (fnCall = "to_range_string" /\ fnArg.r = r04) => fnRes.text = A1C5

\* C17: for every normalized range r, CellRange::parse(r.to_range_string())
\* is Some(r) and to_range_string is "{start_a1}:{end_a1}" ("A1:C5" is
\* (0,0)-(4,2) both ways); and a text with no ':', with more than one ':',
\* or with a side that is not a valid A1 reference (letters immediately
\* followed by the digits of a row >= 1) parses to None.
C17_RangeStringCodec ==
    /\ RangeStringRoundTrip
    /\ fnCall = "parse" =>
          LET s      == fnArg.s
              colons == {i \in 1..Len(s) : s[i] = ":"}
          IN  (\/ Cardinality(colons) # 1
               \/ \E i \in colons :
                     \/ ~IsA1Text(SubSeq(s, 1, i - 1))
                     \/ ~IsA1Text(SubSeq(s, i + 1, Len(s))))
                 => fnRes = None

----------------------------------------------------------------------------
(* Claims about Formula::parse (SpecFormula)                               *)

\* C20, as stated: Formula::parse returns Err(InvalidSyntax) for every text
\* that does not begin with '=' and never Ok for such a text; for a text
\* that begins with '=' it returns a Formula whose text field is that text.
C20_ParsePrefix ==
    fnCall = "parse" =>
        IF ~starts_with(fnArg, "=")
        THEN ~fnRes.ok /\ fnRes.err.tag = "InvalidSyntax"
        ELSE fnRes.ok /\ fnRes.val.text = fnArg

\* text is blanks, then t, then blanks, and t has no blank at either end.
IsTrimOf(t, text) ==
    /\ \E i \in 0..Len(text), j \in 0..Len(text) :
          /\ i + Len(t) + j = Len(text)
          /\ \A k \in 1..i : is_whitespace(text[k])
          /\ \A k \in 1..Len(t) : t[k] = text[i + k]
          /\ \A k \in 1..j : is_whitespace(text[i + Len(t) + k])
    /\ t # <<>> => ~is_whitespace(t[1]) /\ ~is_whitespace(t[Len(t)])

\* C20, amended: Formula::parse looks at the text without its leading and
\* trailing whitespace.  It returns Err(InvalidSyntax), never Ok, exactly
\* when the first character that is not whitespace is not '=' (or there is
\* none); otherwise it returns a Formula whose text field is the text
\* without its leading and trailing whitespace, which begins with '='.
C20_ParsePrefixTrimmed ==
    fnCall = "parse" =>
        LET first == {i \in 1..Len(fnArg) :
                         /\ ~is_whitespace(fnArg[i])
                         /\ \A k \in 1..(i - 1) : is_whitespace(fnArg[k])}
        IN  IF \E i \in first : fnArg[i] = "="
            THEN /\ fnRes.ok
                 /\ IsTrimOf(fnRes.val.text, fnArg)
                 /\ fnRes.val.text[1] = "="
            ELSE ~fnRes.ok /\ fnRes.err.tag = "InvalidSyntax"

\* " =A " was parsed: Ok, with the text "=A".
C20_Witness ==
    /\ fnCall = "parse"
    /\ fnArg = <<" ", "=", "A", " ">>
    /\ fnRes.ok
    /\ fnRes.val.text = <<"=", "A">>

----------------------------------------------------------------------------
(* Claims about formula entry through the editor (SpecEditor)              *)

A1 == CellRef_new(0, 0)
B1 == CellRef_new(0, 1)

\* The value the editor reads at cell.
EdValue(cell) == GridEditor_get_cell_value(sheets, active_sheet, cell)

\* C18: once "=A1+1" has been saved for B1 and "=B1+1" for A1 (each save is
\* one finish_editing call, which returns), both A1 and B1 hold
\* CellValue::Error("circular-reference"): the formula cells on a
\* dependency cycle end in that error value.
C18_CycleMarked ==
    (/\ entered[B1] = Some(<<"=", "A", "1", "+", "1">>)
     /\ entered[A1] = Some(<<"=", "B", "1", "+", "1">>))
        => /\ EdValue(A1) = Some(Error("circular-reference"))
           /\ EdValue(B1) = Some(Error("circular-reference"))

\* No call of the editor stores an Error value: in every reachable state
\* the stored values are Text or Number.
EdNoErrorStored ==
    \A c \in EdCells : EdValue(c).some => EdValue(c).val.tag \in {"Text", "Number"}

\* A formula text the grammar of the formula language cannot derive: it
\* begins with '=' and has no expression after it, or ends in a binary
\* operator that lacks its right operand.
MalformedFormula(text) ==
    /\ starts_with(text, "=")
    /\ \/ Len(text) = 1
       \/ text[Len(text)] \in {"+", "-", "*", "/", "^", "&", "<", ">", "="}

\* C19: a formula entry that fails to parse is rejected and the target cell
\* keeps the CellValue it held before: after finish_editing has submitted a
\* malformed formula for a cell that held a value, the cell holds that
\* value.
C19_RejectedFormulaKeepsValue ==
    (/\ edLast.op = "finish_editing"
     /\ edLast.cell.some
     /\ edLast.prior.some
     /\ MalformedFormula(edLast.text))
        => EdValue(edLast.cell.val) = edLast.prior

----------------------------------------------------------------------------
(* Further claims about the workbook (SpecWorkbook) and the selection      *)
(* (SpecSelection)                                                         *)

\* C29: a remove_sheet(i) step that removes a sheet at an index i different
\* from active_sheet leaves the same sheet active: active() after the step
\* is the sheet active() was before it, for every i, also i < active_sheet.
C29_RemoveKeepsActiveSheet ==
    [][(/\ wbLast'.op = "remove_sheet"
        /\ wbLast'.ret.some
        /\ wbLast'.index # active_sheet)
          => Spreadsheet_active(sheets', active_sheet')
                 = Spreadsheet_active(sheets, active_sheet)
      ]_vars

\* C30: in every selection state reachable from new or from_range by
\* extend_to, add_range (of normalized ranges) and set, the primary cell is
\* selected: is_selected(primary) holds and primary is in cells().
C30_PrimarySelected ==
    /\ Selection_is_selected(Sel, primary)
    /\ primary \in Selection_cells(Sel)

\* add_range has put primary into the last of three ranges, and neither of
\* the two earlier ranges contains it.
C30_Witness ==
    /\ selLast.op = "add_range"
    /\ Len(ranges) = 3
    /\ ~CellRange_contains(ranges[1], primary)
    /\ ~CellRange_contains(ranges[2], primary)

----------------------------------------------------------------------------
(* Claims about the evaluator (SpecFunction, SpecAggregate)                *)

\* Two names are the same up to the case of their letters.
SameIgnoringCase(a, b) ==
    /\ Len(a) = Len(b)
    /\ \A i \in 1..Len(a) :
          \/ a[i] = b[i]
          \/ /\ is_ascii_alphabetic(a[i])
             /\ is_ascii_alphabetic(b[i])
             /\ LetterValue(a[i]) = LetterValue(b[i])

\* The synonyms with their canonical names, and the table of all names.
Synonyms ==
    {<<<<"A", "V", "G">>,
       <<"A", "V", "E", "R", "A", "G", "E">>>>,
     <<<<"C", "E", "I", "L", "I", "N", "G">>,
       <<"C", "E", "I", "L">>>>,
     <<<<"C", "O", "N", "C", "A", "T">>,
       <<"C", "O", "N", "C", "A", "T", "E", "N", "A", "T", "E">>>>,
     <<<<"S", "E", "A", "R", "C", "H">>,
       <<"F", "I", "N", "D">>>>,
     <<<<"R", "E", "P", "L", "A", "C", "E">>,
       <<"S", "U", "B", "S", "T", "I", "T", "U", "T", "E">>>>,
     <<<<"P", "O", "W">>,
       <<"P", "O", "W", "E", "R">>>>,
     <<<<"L", "E", "N", "G", "T", "H">>,
       <<"L", "E", "N">>>>}
CanonicalNames == {Function_name(f) : f \in Functions}
NameTable == CanonicalNames \cup {p[1] : p \in Synonyms}

\* C21: from_name is case-insensitive: a name that is a table name up to
\* case resolves to the function of that table name; a synonym resolves to
\* the function of its canonical name; a name that is no table name up to
\* case resolves to no function; the canonical names of distinct functions
\* resolve to distinct functions.
C21_FromNameTable ==
    /\ fnCall = "from_name" =>
          LET hits == {n \in NameTable : SameIgnoringCase(fnArg, n)} IN
          /\ hits = {} => fnRes = None
          /\ \A n \in hits : fnRes.some /\ fnRes = Function_from_name(n)
          /\ \A p \in Synonyms :
                p[1] \in hits => fnRes = Function_from_name(p[2])
    /\ fnCall = "from_name,name,from_name" =>
          /\ fnRes.name \in CanonicalNames
          /\ fnRes.back = Some(fnRes.function)
          /\ \A g \in Functions :
                Function_from_name(Function_name(g)) = fnRes.back
                    => g = fnRes.function

\* from_name was called with "aVg" and returned Average.
C21_Witness ==
    /\ fnCall = "from_name"
    /\ fnArg = <<"a", "V", "g">>
    /\ fnRes = Some("Average")

\* The reference for the aggregates.  A value is coercible when it is a
\* Number, a Boolean, or a Text that spells a decimal number or "inf"; its
\* number is the payload, 1 or 0, or what the text spells.
InfText == <<"i", "n", "f">>
IsDecimalText(t) == t # <<>> /\ \A i \in 1..Len(t) : is_ascii_digit(t[i])
IsCoercible(v) ==
    \/ v.tag \in {"Number", "Boolean"}
    \/ v.tag = "Text" /\ (IsDecimalText(v.s) \/ v.s = InfText)
IsInfinite(v) ==
    \/ v.tag = "Text" /\ v.s = InfText
    \/ v.tag = "Number" /\ v.n.cls = "inf"
\* The whole number of a coercible value that is not infinite
NumberOf(v) ==
    IF v.tag = "Number" THEN v.n.num
    ELSE IF v.tag = "Boolean" THEN (IF v.b THEN 1 ELSE 0)
    ELSE DecimalNumber(v.s)
Coercible(values) == {i \in 1..Len(values) : IsCoercible(values[i])}
FiniteOnes(values) == {i \in Coercible(values) : ~IsInfinite(values[i])}
HasInfinite(values) == \E i \in Coercible(values) : IsInfinite(values[i])
FiniteSum(values) ==
    SumTo([i \in 1..Len(values) |->
              IF i \in FiniteOnes(values) THEN NumberOf(values[i]) ELSE 0],
          Len(values))
Whole(n) == [cls |-> "finite", num |-> n, den |-> 1]

\* C22: sum returns Number(s) where s is the sum of the numbers of exactly
\* the coercible values (Number, Boolean as 0/1, numeric Text); Empty,
\* Error, Date and non-numeric Text add nothing; the result is never an
\* Error, and it is Number(0) when no value is coercible.
C22_SumOfCoercible ==
    fnCall = "sum" =>
        /\ fnRes.tag = "Number"
        /\ fnRes.n = IF HasInfinite(fnArg) THEN INFINITY
                     ELSE Whole(FiniteSum(fnArg))
        /\ Coercible(fnArg) = {} => fnRes = Number(Whole(0))

\* sum of a Boolean, a numeric Text and a Date is Number(6).
C22_Witness ==
    /\ fnCall = "sum"
    /\ fnArg = <<Boolean(TRUE), Text(<<"5">>), Date(7)>>
    /\ fnRes = Number(Whole(6))

\* C23: average returns Number(sum / count) over the coercible values when
\* there is at least one, and Number(0) when there is none; it never
\* divides by zero and never returns an Error.
C23_AverageOfCoercible ==
    fnCall = "average" =>
        /\ fnRes.tag = "Number"
        /\ IF Coercible(fnArg) = {} THEN fnRes = Number(Whole(0))
           ELSE IF HasInfinite(fnArg) THEN fnRes.n = INFINITY
           ELSE /\ fnRes.n.cls = "finite"
                /\ fnRes.n.den > 0
                /\ fnRes.n.num * Cardinality(Coercible(fnArg))
                       = FiniteSum(fnArg) * fnRes.n.den

\* average of 1, 2 and a non-numeric Text is 3/2: the Text is not counted.
C23_Witness ==
    /\ fnCall = "average"
    /\ fnArg = <<Number(Whole(1)), Text(<<"x">>), Number(Whole(2))>>
    /\ fnRes = Number([cls |-> "finite", num |-> 3, den |-> 2])

\* The largest and the smallest coercible value of a list that has one
Largest(values) ==
    IF HasInfinite(values) THEN INFINITY
    ELSE Whole(CHOOSE m \in {NumberOf(values[i]) : i \in FiniteOnes(values)} :
                  \A i \in FiniteOnes(values) : NumberOf(values[i]) <= m)
Smallest(values) ==
    IF FiniteOnes(values) = {} THEN INFINITY
    ELSE Whole(CHOOSE m \in {NumberOf(values[i]) : i \in FiniteOnes(values)} :
                  \A i \in FiniteOnes(values) : m <= NumberOf(values[i]))

\* C24: max (min) returns Number(m), m the largest (smallest) coercible
\* value, whenever at least one value is coercible, and returns
\* Error("no-numeric-values") exactly when no value is coercible.
C24_MaxMinOfCoercible ==
    /\ fnCall = "max" =>
          IF Coercible(fnArg) # {} THEN fnRes = Number(Largest(fnArg))
          ELSE fnRes = Error("no-numeric-values")
    /\ fnCall = "min" =>
          IF Coercible(fnArg) # {} THEN fnRes = Number(Smallest(fnArg))
          ELSE fnRes = Error("no-numeric-values")

\* The same with the text of the error left open: max and min return an
\* Error exactly when no value is coercible.
MaxMinErrorIffNoneCoercible ==
    fnCall \in {"max", "min"} =>
        (fnRes.tag = "Error" <=> Coercible(fnArg) = {})

\* max and min on lists whose coercible values are all finite return the
\* largest and the smallest of them, and an Error when there is none.
MaxMinOfFinite ==
    /\ fnCall = "max" /\ ~HasInfinite(fnArg) =>
          IF Coercible(fnArg) # {} THEN fnRes = Number(Largest(fnArg))
          ELSE fnRes.tag = "Error"
    /\ fnCall = "min" /\ ~HasInfinite(fnArg) =>
          IF Coercible(fnArg) # {} THEN fnRes = Number(Smallest(fnArg))
          ELSE fnRes.tag = "Error"

----------------------------------------------------------------------------
(* Claims about the view (SpecView) and about all calls of the editor      *)
(* (SpecEditorAll)                                                         *)

\* C25: after start_edit(c, s) editing_cell is Some(c) and edit_buffer is
\* s; finish_edit returns Some((c, buffer)) exactly when a cell c is being
\* edited and None otherwise; after finish_edit or cancel_edit editing_cell
\* is None and edit_buffer is empty, so a finish_edit that follows a
\* finish_edit or a cancel_edit returns None.
C25_EditCycle ==
    /\ edLast.op = "start_edit" =>
          /\ editing_cell = edLast.cell
          /\ edit_buffer = edLast.text
    /\ edLast.op = "finish_edit" =>
          /\ edLast.ret = IF edLast.cell.some
                          THEN Some(<<edLast.cell.val, edLast.text>>)
                          ELSE None
          /\ edLast.after_close => edLast.ret = None
          /\ editing_cell = None
          /\ edit_buffer = <<>>
    /\ edLast.op = "cancel_edit" =>
          /\ editing_cell = None
          /\ edit_buffer = <<>>

\* The same, with the buffer said to be empty only after a finish_edit
\* that closed an edit (one that returned Some) and after cancel_edit.
EditCycleOfOpenEdit ==
    /\ edLast.op = "start_edit" =>
          /\ editing_cell = edLast.cell
          /\ edit_buffer = edLast.text
    /\ edLast.op = "finish_edit" =>
          /\ edLast.ret = IF edLast.cell.some
                          THEN Some(<<edLast.cell.val, edLast.text>>)
                          ELSE None
          /\ edLast.after_close => edLast.ret = None
          /\ editing_cell = None
          /\ edLast.ret.some => edit_buffer = <<>>
    /\ edLast.op = "cancel_edit" =>
          /\ editing_cell = None
          /\ edit_buffer = <<>>

\* actual is max(0, c + d), for a coordinate c >= 0 and a step d
ClampedSum(c, d, actual) ==
    IF d < 0 /\ c + d < 0 THEN actual = 0 ELSE actual - c = d

\* C27: move_selection(dx, dy) from the primary cell (r, c) always produces
\* a single-cell selection whose primary is (max(0, r + dy), max(0, c + dx)),
\* whatever the selection was before.
C27_MoveClamped ==
    edLast.op = "move_selection" =>
        /\ ~edLast.panic
        /\ ranges = <<CellRange(primary, primary)>>
        /\ ClampedSum(edLast.cell.val.row, edLast.dy, primary.row)
        /\ ClampedSum(edLast.cell.val.col, edLast.dx, primary.col)

\* The same for the moves whose sums r + dy and c + dx are within i32.
MoveClampedWithinI32 ==
    (/\ edLast.op = "move_selection"
     /\ edLast.dy <= I32_MAX - edLast.cell.val.row
     /\ edLast.dx <= I32_MAX - edLast.cell.val.col)
        => /\ ~edLast.panic
           /\ ranges = <<CellRange(primary, primary)>>
           /\ ClampedSum(edLast.cell.val.row, edLast.dy, primary.row)
           /\ ClampedSum(edLast.cell.val.col, edLast.dx, primary.col)

\* C26: cut on a selected cell that holds the value v leaves the cell
\* absent from the storage and the clipboard equal to [[v]]; paste with the
\* clipboard [[v]] at the selected cell t makes get_cell_value(t) Some(v)
\* and leaves the clipboard as it was.
C26_CutThenPaste ==
    /\ (edLast.op = "cut" /\ edLast.prior.some) =>
          /\ EdValue(edLast.cell.val) = None
          /\ clipboard = Some(<<<<edLast.prior.val>>>>)
    /\ (edLast.op = "paste" /\ edLast.clip.some) =>
          /\ Len(edLast.clip.val) = 1
          /\ Len(edLast.clip.val[1]) = 1
          /\ EdValue(edLast.cell.val) = Some(edLast.clip.val[1][1])
          /\ clipboard = edLast.clip

\* Number(42) was cut from A1 and pasted at B1: A1 is absent, B1 holds
\* Number(42), the clipboard is [[Number(42)]].
C26_Witness ==
    /\ edLast.op = "paste"
    /\ edLast.cell = Some(B1)
    /\ EdValue(A1) = None
    /\ EdValue(B1) = Some(Number(42))
    /\ clipboard = Some(<<<<Number(42)>>>>)
    /\ \A c \in EdCells : entered[c] = None

\* The value the editor makes of a typed text that is no formula
ValueOfText(text) ==
    IF IsDecimalText(text) THEN Number(DecimalNumber(text)) ELSE Text(text)

\* C28: in every state of the editor reachable by its ten calls, mode is
\* Edit exactly when the view has an editing cell; and a finish_editing
\* that closes an edit writes the edit buffer to the cell that was selected
\* when start_editing opened the edit, wherever the selection is now.
C28_ModeAndTarget ==
    /\ (mode = "Edit") <=> editing_cell.some
    /\ (edLast.op = "finish_editing" /\ edLast.cell.some) =>
          /\ edLast.origin = edLast.cell
          /\ EdValue(edLast.cell.val) = Some(ValueOfText(edLast.text))
          /\ CellValue_to_display_string(EdValue(edLast.cell.val).val) = edLast.text

\* finish_editing has written "42" to A1 while the selection is on B1,
\* which holds nothing.
C28_Witness ==
    /\ edLast.op = "finish_editing"
    /\ edLast.cell = Some(A1)
    /\ edLast.text = <<"4", "2">>
    /\ primary = B1
    /\ EdValue(A1) = Some(Number(42))
    /\ EdValue(B1) = None
    /\ mode = "Normal"

====
